---- MODULE Spec2Model ----
(***************************************************************************)
(* Verification model of jsonrpcForCpp: the protocol engine, the method     *)
(* registry with its batch dispatcher, and the HTTP server session.         *)
(*                                                                          *)
(* Three specifications share the module:                                   *)
(*   SpecInvoke  MethodRegistry::register_method / invoke on one request    *)
(*   SpecBatch   MethodRegistry::invoke_batch on the worker pool            *)
(*   Spec        ServerSession: do_read / on_read / process_request /       *)
(*               do_write / on_write / do_close                             *)
(***************************************************************************)
EXTENDS Integers, Sequences, FiniteSets, TLC

(***************************************************************************)
(* Bounds of the model                                                      *)
(***************************************************************************)
MaxBatch == 3

MaxThreads == 2

MaxBodyBatch == 2

(***************************************************************************)
(* ErrorCode (errors.hpp)                                                   *)
(***************************************************************************)
ParseError == -32700

InvalidRequest == -32600

MethodNotFound == -32601

InvalidParams == -32602

InternalError == -32603

ServerError == -32000

(***************************************************************************)
(* boost::json values as tagged records.  An object is a record whose      *)
(* DOMAIN is the set of keys present.                                       *)
(***************************************************************************)
JNull == [t |-> "null"]

JInt(n) == [t |-> "int64", v |-> n]

JDouble(n) == [t |-> "double", v |-> n]

JStr(s) == [t |-> "string", v |-> s]

JBool(b) == [t |-> "bool", v |-> b]

JArr(s) == [t |-> "array", v |-> s]

JObj(r) == [t |-> "object", v |-> r]

is_null(jv) == jv.t = "null"

is_int64(jv) == jv.t = "int64"

is_number(jv) == jv.t \in {"int64", "uint64", "double"}

is_string(jv) == jv.t = "string"

is_array(jv) == jv.t = "array"

is_object(jv) == jv.t = "object"

contains(obj, key) == key \in DOMAIN obj

(***************************************************************************)
(* Error, Request, Response (errors.hpp, types.ipp)                         *)
(***************************************************************************)
Error(code, message) == [code |-> code, message |-> message, data |-> JNull]

ErrorWithData(code, message, data) == [code |-> code, message |-> message, data |-> data]

Request(method, params, id) ==
    [method |-> method, params |-> params, id |-> id, has_id |-> TRUE]

Notification(method, params) ==
    [method |-> method, params |-> params, id |-> JNull, has_id |-> FALSE]

ResponseResult(result, id) ==
    [is_error |-> FALSE, result |-> result,
     error |-> Error(InternalError, ""), id |-> id]

ResponseError(error, id) ==
    [is_error |-> TRUE, result |-> JNull, error |-> error, id |-> id]

\* An exception in flight: kind is "Error" (jsonrpc::Error), "std" (any other
\* std::exception) or "other" (a thrown object that is not a std::exception).
Throw(kind, payload) == [thrown |-> TRUE, kind |-> kind, payload |-> payload]

Return(value) == [thrown |-> FALSE, value |-> value]

ThrowError(code, message) == Throw("Error", Error(code, message))

\* Error::to_json
Error_to_json(e) ==
    IF is_null(e.data)
    THEN JObj([code |-> JInt(e.code), message |-> JStr(e.message)])
    ELSE JObj([code |-> JInt(e.code), message |-> JStr(e.message), data |-> e.data])

\* Response::to_json
Response_to_json(resp) ==
    IF resp.is_error
    THEN JObj([jsonrpc |-> JStr("2.0"), error |-> Error_to_json(resp.error), id |-> resp.id])
    ELSE JObj([jsonrpc |-> JStr("2.0"), result |-> resp.result, id |-> resp.id])

\* Request::from_json taking a null id for an absent one
Request_from_json_null_id_absent(jv) ==
    IF ~is_object(jv) THEN ThrowError(InvalidRequest, "request must be a JSON object")
    ELSE LET obj == jv.v IN
      IF \/ ~contains(obj, "jsonrpc")
         \/ ~is_string(obj.jsonrpc)
         \/ obj.jsonrpc.v # "2.0"
      THEN ThrowError(InvalidRequest, "missing or invalid jsonrpc version")
      ELSE IF ~contains(obj, "method") \/ ~is_string(obj.method)
      THEN ThrowError(InvalidRequest, "missing or invalid method")
      ELSE LET method == obj.method.v
               params == IF contains(obj, "params") THEN obj.params ELSE JNull
           IN IF ~is_array(params) /\ ~is_object(params) /\ ~is_null(params)
              THEN ThrowError(InvalidRequest, "params must be array or object")
              ELSE IF contains(obj, "id")
                   THEN IF ~is_string(obj.id) /\ ~is_number(obj.id) /\ ~is_null(obj.id)
                        THEN ThrowError(InvalidRequest, "id must be string, number or null")
                        ELSE IF is_null(obj.id)
                             THEN Return(Notification(method, params))
                             ELSE Return(Request(method, params, obj.id))
                   ELSE Return(Notification(method, params))

\* Request::from_json
Request_from_json(jv) ==
    IF ~is_object(jv) THEN ThrowError(InvalidRequest, "request must be a JSON object")
    ELSE LET obj == jv.v IN
      IF \/ ~contains(obj, "jsonrpc")
         \/ ~is_string(obj.jsonrpc)
         \/ obj.jsonrpc.v # "2.0"
      THEN ThrowError(InvalidRequest, "missing or invalid jsonrpc version")
      ELSE IF ~contains(obj, "method") \/ ~is_string(obj.method)
      THEN ThrowError(InvalidRequest, "missing or invalid method")
      ELSE LET method == obj.method.v
               params == IF contains(obj, "params") THEN obj.params ELSE JNull
           IN IF ~is_array(params) /\ ~is_object(params) /\ ~is_null(params)
              THEN ThrowError(InvalidRequest, "params must be array or object")
              ELSE IF contains(obj, "id")
                   THEN IF ~is_string(obj.id) /\ ~is_number(obj.id) /\ ~is_null(obj.id)
                        THEN ThrowError(InvalidRequest, "id must be string, number or null")
                        ELSE Return(Request(method, params, obj.id))
                   ELSE Return(Notification(method, params))

(***************************************************************************)
(* Strings that travel as HTTP bodies.  A well-formed JSON text is          *)
(* represented by the value it denotes; any other text by its literal.      *)
(***************************************************************************)
serialize(jv) == [wf |-> TRUE, jv |-> jv]

RawText(s) == [wf |-> FALSE, raw |-> s]

\* boost::json::parse: throws boost::system::system_error on a syntax error
json_parse(str) ==
    IF str.wf THEN Return(str.jv) ELSE Throw("std", "syntax error")

\* Protocol::is_batch_request
is_batch_request(jv) == is_array(jv)

\* The first element of a sequence of outcomes that is a throw, else 0
FirstThrown(outs) ==
    IF \E i \in 1..Len(outs) : outs[i].thrown
    THEN CHOOSE i \in 1..Len(outs) :
            outs[i].thrown /\ \A j \in 1..(i - 1) : ~outs[j].thrown
    ELSE 0

\* Protocol::parse_request
parse_request(json_str) ==
    LET p == json_parse(json_str) IN
    IF p.thrown THEN ThrowError(ParseError, "JSON parse failed: " \o p.payload)
    ELSE LET jv == p.value IN
      IF is_batch_request(jv)
      THEN LET arr == jv.v IN
           IF Len(arr) = 0
           THEN ThrowError(InvalidRequest, "batch request must not be empty")
           ELSE LET outs == [i \in 1..Len(arr) |-> Request_from_json(arr[i])]
                    bad == FirstThrown(outs)
                IN IF bad # 0 THEN outs[bad]
                   ELSE Return([i \in 1..Len(arr) |-> outs[i].value])
      ELSE LET r == Request_from_json(jv) IN
           IF r.thrown THEN r ELSE Return(<<r.value>>)

\* Protocol::serialize_response
serialize_response(response) == serialize(Response_to_json(response))

\* Protocol::serialize_batch_response
serialize_batch_response(responses) ==
    serialize(JArr([i \in 1..Len(responses) |-> Response_to_json(responses[i])]))

(***************************************************************************)
(* Value codec (type_converter.hpp)                                         *)
(***************************************************************************)
IntBits == 8

\* static_cast<int>(int64_t): keeps the low IntBits bits, two's complement
static_cast_int(v) ==
    ((v + 2 ^ (IntBits - 1)) % (2 ^ IntBits)) - 2 ^ (IntBits - 1)

\* json_converter<T>::from_json for T in int, double, bool, std::string
from_json(type, jv) ==
    CASE type = "int" ->
           IF ~is_int64(jv) THEN ThrowError(InvalidParams, "expected int")
           ELSE Return(static_cast_int(jv.v))
      [] type = "double" ->
           IF jv.t \in {"double", "int64", "uint64"} THEN Return(jv.v)
           ELSE ThrowError(InvalidParams, "expected double")
      [] type = "bool" ->
           IF jv.t # "bool" THEN ThrowError(InvalidParams, "expected bool")
           ELSE Return(jv.v)
      [] type = "string" ->
           IF ~is_string(jv) THEN ThrowError(InvalidParams, "expected string")
           ELSE Return(jv.v)

\* json_converter<R>::to_json, R = void included
to_json(type, val) ==
    CASE type = "int" -> JInt(val)
      [] type = "double" -> JDouble(val)
      [] type = "bool" -> JBool(val)
      [] type = "string" -> JStr(val)
      [] type = "void" -> JNull

\* extract_args_impl: arity check, then element-wise conversion
extract_args_impl(types, arr) ==
    IF Len(arr) # Len(types)
    THEN ThrowError(InvalidParams, "argument count mismatch")
    ELSE LET outs == [i \in 1..Len(types) |-> from_json(types[i], arr[i])]
             bad == FirstThrown(outs)
         IN IF bad # 0 THEN outs[bad]
            ELSE Return([i \in 1..Len(types) |-> outs[i].value])

\* extract_args with the emptiness check of the no-argument case left out
extract_args_any_array(types, params) ==
    IF Len(types) = 0
    THEN IF ~is_null(params) /\ ~is_array(params)
         THEN ThrowError(InvalidParams, "params must be null or array")
         ELSE Return(<<>>)
    ELSE IF ~is_array(params)
         THEN ThrowError(InvalidParams, "params must be array")
         ELSE extract_args_impl(types, params.v)

\* extract_args<Args...> and its specialisation for no arguments
extract_args(types, params) ==
    IF Len(types) = 0
    THEN IF ~is_null(params) /\ ~is_array(params)
         THEN ThrowError(InvalidParams, "params must be null or array")
         ELSE IF is_array(params) /\ Len(params.v) # 0
              THEN ThrowError(InvalidParams, "expected no arguments")
              ELSE Return(<<>>)
    ELSE IF ~is_array(params)
         THEN ThrowError(InvalidParams, "params must be array")
         ELSE extract_args_impl(types, params.v)

(***************************************************************************)
(* Registered procedures.  A procedure is its declared parameter types,    *)
(* its return type and the behaviour of its body.                           *)
(***************************************************************************)
Proc(args, ret, body) == [args |-> args, ret |-> ret, body |-> body]

P_add == Proc(<<"int", "int">>, "int", "add")

P_log == Proc(<<"string">>, "void", "log")

P_boom == Proc(<<>>, "int", "boom")

P_fail == Proc(<<>>, "int", "fail")

P_crash == Proc(<<>>, "int", "crash")

Procs == {P_add, P_log, P_boom, P_fail, P_crash}

\* call_with_tuple(func_, args): the user procedure itself
call_with_tuple(proc, args) ==
    CASE proc.body = "add" -> Return(args[1] + args[2])
      [] proc.body = "log" -> Return(0)
      [] proc.body = "boom" ->
           Throw("Error", ErrorWithData(ServerError, "boom", JStr("detail")))
      [] proc.body = "fail" -> Throw("std", "oops")
      [] proc.body = "crash" -> Throw("other", 42)

\* MethodWrapperImpl::invoke / invoke_impl
wrapper_invoke(proc, params) ==
    LET a == extract_args(proc.args, params) IN
    IF a.thrown THEN a
    ELSE LET r == call_with_tuple(proc, a.value) IN
         IF ~r.thrown THEN Return(to_json(proc.ret, r.value))
         ELSE CASE r.kind = "Error" -> r
                [] r.kind = "std" ->
                     ThrowError(InternalError, "method failed: " \o r.payload)
                [] r.kind = "other" -> r

\* TRUE iff the wrapper found gets as far as running the procedure's body:
\* call_with_tuple is reached only when extract_args has not thrown
BodyRuns(it, request) ==
    /\ it.found
    /\ ~extract_args(it.wrapper.args, request.params).thrown

\* methods_.find(method_name) under mutex_: the wrapper found, if any
lookup(methods, name) ==
    IF name \in DOMAIN methods
    THEN [found |-> TRUE, wrapper |-> methods[name]]
    ELSE [found |-> FALSE]

\* MethodRegistry::invoke after the lookup: a Response, or the exception
\* that escapes it
invoke_found(it, request) ==
    LET id == request.id
        w == IF ~it.found
             THEN ThrowError(MethodNotFound, "method not found: " \o request.method)
             ELSE wrapper_invoke(it.wrapper, request.params)
    IN IF ~w.thrown THEN Return(ResponseResult(w.value, id))
       ELSE CASE w.kind = "Error" -> Return(ResponseError(w.payload, id))
              [] w.kind = "std" ->
                   Return(ResponseError(
                       Error(InternalError, "internal error: " \o w.payload), id))
              [] w.kind = "other" -> w

\* MethodRegistry::invoke
invoke(methods, request) == invoke_found(lookup(methods, request.method), request)

\* A registry whose register_method keeps the wrapper a name already has
register_keep_first(methods, name, proc) ==
    [n \in DOMAIN methods \cup {name} |->
        IF n \in DOMAIN methods THEN methods[n] ELSE proc]

\* MethodRegistry::register_method: methods_[name] = wrapper
register(methods, name, proc) ==
    [n \in DOMAIN methods \cup {name} |-> IF n = name THEN proc ELSE methods[n]]

(***************************************************************************)
(* invoke_batch as a function of its input: what the dispatcher returns     *)
(* once every task has completed.                                           *)
(***************************************************************************)
\* The response a batch task stores for a request with an id
task_response(methods, request) ==
    LET out == invoke(methods, request) IN
    IF ~out.thrown THEN out.value
    ELSE ResponseError(Error(InternalError, "batch call failed"), request.id)

\* indexed_responses left in completion order
sort_by_index_skipped(entries) == entries

\* std::sort of indexed_responses by index (the indices are distinct)
sort_by_index(entries) ==
    [k \in 1..Len(entries) |->
        CHOOSE e \in {entries[i] : i \in 1..Len(entries)} :
            Cardinality({j \in 1..Len(entries) : entries[j].index < e.index}) = k - 1]

\* The loop that moves entry.response into the returned vector
strip_index(entries) == [k \in 1..Len(entries) |-> entries[k].response]

\* The indices of the requests that have an id, ascending
RECURSIVE ids_upto(_, _)
ids_upto(reqs, n) ==
    IF n = 0 THEN <<>>
    ELSE IF reqs[n].has_id THEN Append(ids_upto(reqs, n - 1), n)
         ELSE ids_upto(reqs, n - 1)

\* MethodRegistry::invoke_batch, result only
invoke_batch(methods, reqs) ==
    LET ix == ids_upto(reqs, Len(reqs)) IN
    [k \in 1..Len(ix) |-> task_response(methods, reqs[ix[k]])]

(***************************************************************************)
(* State                                                                    *)
(***************************************************************************)
VARIABLES
    methods_,             \* MethodRegistry::methods_
    batch_thread_count_,  \* MethodRegistry::batch_thread_count_
    inv_pc,               \* invoke: "idle", "found" (after the lookup), "returned"
    inv_request,          \* invoke: its argument
    inv_it,               \* invoke: the result of the lookup
    inv_outcome,          \* invoke: the Response returned or the exception escaping
    history,              \* register_method: what was registered, in call order
    requests,             \* invoke_batch: its argument
    bpc,                  \* invoke_batch: position of the calling thread
    idx,                  \* invoke_batch: loop index of the posting loop (1-based)
    pool_queue,           \* thread_pool: tasks posted and not yet taken
    workers,              \* thread_pool: what each pool thread is doing
    indexed_responses,    \* invoke_batch: indexed_responses
    remaining,            \* invoke_batch: *remaining
    promise,              \* invoke_batch: completion_promise has a value
    responses,            \* invoke_batch: the vector returned
    started,              \* per request: how often its procedure body was entered
    finished,             \* per request: how often its procedure body was left
    state,                \* ServerSession: Reading, Writing or Closed
    req_,                 \* ServerSession::req_
    res_,                 \* ServerSession::res_
    close,                \* the close flag captured by do_write
    logger_,              \* ServerSession::logger_ is set
    logged,               \* messages handed to the logger since the last do_read
    shutdown_send,        \* do_close has shut down the sending side
    body_parsed,          \* process_request has passed req_.body() to parse_request
    last_ec,              \* the error code the latest completion handler was given
    served,               \* the session has written a response completely
    callers,              \* Server: the threads that call its interface
    pc,                   \* Server: where each calling thread is inside its call
    result,               \* Server: the latest call that returned or threw
    sbc_threads,          \* set_batch_concurrency: the argument of the call in progress
    running_,             \* Server::Impl::running_
    acceptor_ready_,      \* Server::Impl::acceptor_ready_
    acceptor_open,        \* Server::Impl::acceptor_ is open and listening
    accept_pending,       \* an async_accept is outstanding on the open acceptor
    aborted_queued,       \* an on_accept(operation_aborted) handler is queued
    accept_failed,        \* on_accept has logged an accept error
    io_stopped,           \* Server::Impl::io_context_ is in the stopped state
    worker_thread_,       \* Server::Impl::worker_thread_: "null" or "joinable"
    loop,                 \* per thread: its position relative to io_context_.run()
    batch_pool_,          \* MethodRegistry::batch_pool_: which pool it points to
    pool_stopped,         \* the pools that were stopped and joined
    session,              \* the accepted connection's ServerSession and when it was accepted
    serving,              \* the request a reactor thread is processing
    peer,                 \* a second accepted connection's ServerSession and its request
    starts,               \* how often start() or run() entered the running state
    terminated,           \* std::terminate was called
    cl_kind,              \* Client: the operation in progress
    cl_pc,                \* ClientSession: the phase of send_request_sync
    cl_request,           \* ClientSession: the request body sent
    cl_outcome,           \* Client: what the operation returned or threw
    cl_ec,                \* ClientSession: the system error of the failed phase
    cl_logger_,           \* ClientSession::logger_ is set
    cl_logged,            \* messages handed to the client's logger
    timer_expired,        \* ClientSession::stream_: the armed timer has expired
    srv_proc,             \* the peer: progress of the called procedure
    srv_reply,            \* the peer: the response body it has written
    pr_op,                \* Protocol: the function applied last
    pr_in,                \* Protocol: its argument
    pr_out,               \* Protocol: what it returned or threw
    as_calls,             \* Client: the async_call exchanges issued, in order
    as_ctx,               \* Client::Impl::io_context_
    as_drv                \* Client: the driver call in progress or returned last

vars == <<methods_, batch_thread_count_, inv_pc, inv_request, inv_it, inv_outcome,
          history,
          requests, bpc, idx, pool_queue, workers, indexed_responses, remaining,
          promise, responses, started, finished,
          state, req_, res_, close, logger_, logged, shutdown_send, body_parsed,
          last_ec, served,
          callers, pc, result, sbc_threads, running_, acceptor_ready_, acceptor_open,
          accept_pending, aborted_queued, accept_failed, io_stopped, worker_thread_,
          loop, batch_pool_, pool_stopped, session, serving, peer, starts,
          terminated,
          cl_kind, cl_pc, cl_request, cl_outcome, cl_ec, cl_logger_, cl_logged,
          timer_expired, srv_proc, srv_reply,
          pr_op, pr_in, pr_out,
          as_calls, as_ctx, as_drv>>

registry_vars == <<methods_, batch_thread_count_>>

invoke_vars == <<inv_pc, inv_request, inv_it, inv_outcome, history>>

protocol_vars == <<pr_op, pr_in, pr_out>>

async_vars == <<as_calls, as_ctx, as_drv>>

batch_vars == <<requests, bpc, idx, pool_queue, workers, indexed_responses,
                remaining, promise, responses>>

session_vars == <<state, req_, res_, close, logger_, logged, shutdown_send,
                  body_parsed, last_ec, served>>

server_vars == <<callers, pc, result, sbc_threads, running_, acceptor_ready_,
                 acceptor_open, accept_pending, aborted_queued, accept_failed,
                 io_stopped, worker_thread_, loop, batch_pool_, pool_stopped,
                 session, serving, peer, starts, terminated>>

client_vars == <<cl_kind, cl_pc, cl_request, cl_outcome, cl_ec, cl_logger_,
                 cl_logged, timer_expired, srv_proc, srv_reply>>

NoMethods == [n \in {} |-> P_add]

\* No register_method call has been made, no lookup has run
NoHistory == [latest |-> NoMethods, replaced |-> {},
              looked |-> [found |-> FALSE, overtaken |-> FALSE]]

\* The registry of a server set up with one procedure of each behaviour
Registry ==
    [n \in {"add", "log", "boom", "fail", "crash"} |->
        CASE n = "add" -> P_add
          [] n = "log" -> P_log
          [] n = "boom" -> P_boom
          [] n = "fail" -> P_fail
          [] n = "crash" -> P_crash]

NoRequest == Notification("", JNull)

NoOutcome == Return(JNull)

IdleWorker == [task |-> 0, phase |-> "idle"]

res_default == [status |-> 200, content_type |-> <<>>, body |-> RawText(""),
                connection |-> "none"]

req_default == [verb |-> "", content_type |-> <<>>, body |-> RawText(""),
                connection |-> "none"]

InvokeIdle ==
    /\ inv_pc = "idle"
    /\ inv_request = NoRequest
    /\ inv_it = [found |-> FALSE]
    /\ inv_outcome = NoOutcome
    /\ history = NoHistory

ProtocolIdle ==
    /\ pr_op = "none"
    /\ pr_in = JNull
    /\ pr_out = NoOutcome

\* io_context_ of a Client just built: not stopped, nothing posted
NoContext == [stopped |-> FALSE, posted |-> 0, executed |-> 0]

\* No driver primitive has been called
NoDriver == [op |-> "none", pc |-> "idle", n |-> 0, total |-> 0, entry_posted |-> 0]

AsyncIdle ==
    /\ as_calls = <<>>
    /\ as_ctx = NoContext
    /\ as_drv = NoDriver

BatchIdle ==
    /\ requests = <<>>
    /\ bpc = "idle"
    /\ idx = 1
    /\ pool_queue = <<>>
    /\ workers = [w \in 1..batch_thread_count_ |-> IdleWorker]
    /\ indexed_responses = <<>>
    /\ remaining = 0
    /\ promise = FALSE
    /\ responses = <<>>
    /\ started = <<>>
    /\ finished = <<>>

SessionIdle ==
    /\ state = "Closed"
    /\ req_ = req_default
    /\ res_ = res_default
    /\ close = FALSE
    /\ logger_ = FALSE
    /\ logged = 0
    /\ shutdown_send = FALSE
    /\ body_parsed = FALSE
    /\ last_ec = "ok"
    /\ served = FALSE

NoCall == [thread |-> "none", op |-> "none", r |-> "none"]

NoSession == [st |-> "none", cycle |-> 0]

NoServing == [thread |-> "none", body |-> "none", pool |-> 0, done |-> FALSE,
              executor |-> "none"]

NoPeer == [st |-> "none", thread |-> "none", pool |-> 0, done |-> FALSE]

\* Server::Impl::Impl: not running, the acceptor prepared, no loop thread
ServerIdle ==
    /\ callers = {}
    /\ pc = <<>>
    /\ result = NoCall
    /\ sbc_threads = <<>>
    /\ running_ = FALSE
    /\ acceptor_ready_ = TRUE
    /\ acceptor_open = TRUE
    /\ accept_pending = FALSE
    /\ aborted_queued = FALSE
    /\ accept_failed = FALSE
    /\ io_stopped = FALSE
    /\ worker_thread_ = "null"
    /\ loop = <<>>
    /\ batch_pool_ = 0
    /\ pool_stopped = {}
    /\ session = NoSession
    /\ serving = NoServing
    /\ peer = NoPeer
    /\ starts = 0
    /\ terminated = FALSE

ClientIdle ==
    /\ cl_kind = "none"
    /\ cl_pc = "idle"
    /\ cl_request = RawText("")
    /\ cl_outcome = NoOutcome
    /\ cl_ec = "ok"
    /\ cl_logger_ = FALSE
    /\ cl_logged = 0
    /\ timer_expired = FALSE
    /\ srv_proc = "none"
    /\ srv_reply = RawText("none")

(***************************************************************************)
(* SpecInvoke: register_method and invoke on one registry                   *)
(***************************************************************************)
RegNames == {"add", "log"}

InvokeMethods == {"add", "log", "nope"}

InvokeParams ==
    { JNull,
      JArr(<<>>),
      JArr(<<JInt(1), JInt(2)>>),
      JArr(<<JInt(1)>>),
      JArr(<<JInt(1), JStr("x")>>),
      JArr(<<JStr("hi")>>),
      JObj([a |-> JInt(1)]) }

InvokeIds == {JNull, JInt(1), JStr("a")}

InvokeRequests ==
    {Request(m, p, i) : m \in InvokeMethods, p \in InvokeParams, i \in InvokeIds}
    \cup {Notification(m, p) : m \in InvokeMethods, p \in InvokeParams}

InitInvoke ==
    /\ methods_ = NoMethods
    /\ batch_thread_count_ = 2
    /\ InvokeIdle
    /\ ProtocolIdle
    /\ AsyncIdle
    /\ BatchIdle
    /\ SessionIdle
    /\ ServerIdle
    /\ ClientIdle

\* mutex_ held by invoke from the lookup until the wrapper has returned
mutex_held_while_invoking == inv_pc = "found"

\* mutex_ between two steps: the lock_guard of invoke covers the find and the
\* copy of the wrapper only, the one of register_method the insert only, so
\* no thread holds mutex_ while a wrapper runs
mutex_held == FALSE

\* MethodRegistry::register_method
register_method(name, proc) ==
    /\ ~mutex_held
    /\ methods_' = register(methods_, name, proc)
    /\ history' =
           [history EXCEPT
               !.looked = IF inv_pc = "found" /\ name = inv_request.method
                          THEN [history.looked EXCEPT !.overtaken = TRUE]
                          ELSE history.looked,
               !.latest = [n \in DOMAIN history.latest \cup {name} |->
                              IF n = name THEN proc ELSE history.latest[n]],
               !.replaced =
                   IF name \in DOMAIN history.latest
                   THEN IF history.latest[name] # proc
                        THEN history.replaced \cup {name}
                        ELSE history.replaced
                   ELSE history.replaced]
    /\ UNCHANGED <<protocol_vars, async_vars, server_vars, client_vars, batch_thread_count_, inv_pc,
                   inv_request, inv_it, inv_outcome, batch_vars, started, finished,
                   session_vars>>

\* MethodRegistry::invoke, up to the end of the locked lookup
invoke_lookup(request) ==
    /\ inv_pc \in {"idle", "returned"}
    /\ ~mutex_held
    /\ inv_pc' = "found"
    /\ inv_request' = request
    /\ inv_it' = lookup(methods_, request.method)
    /\ inv_outcome' = NoOutcome
    /\ history' =
           [history EXCEPT
               !.looked =
                   IF request.method \in DOMAIN history.latest
                   THEN [found |-> TRUE,
                         wrapper |-> history.latest[request.method],
                         second |-> request.method \in history.replaced,
                         overtaken |-> FALSE]
                   ELSE [found |-> FALSE, overtaken |-> FALSE]]
    /\ started' = <<0>>
    /\ finished' = <<0>>
    /\ UNCHANGED <<protocol_vars, async_vars, server_vars, client_vars, registry_vars, batch_vars,
                   session_vars>>

\* MethodRegistry::invoke, from wrapper->invoke(params) to its return or throw
invoke_return ==
    /\ inv_pc = "found"
    /\ inv_pc' = "returned"
    /\ inv_outcome' = invoke_found(inv_it, inv_request)
    /\ started' = IF BodyRuns(inv_it, inv_request) THEN <<1>> ELSE <<0>>
    /\ finished' = started'
    /\ UNCHANGED <<protocol_vars, async_vars, server_vars, client_vars, registry_vars, inv_request, inv_it, history,
                   batch_vars, session_vars>>

NextInvoke ==
    \/ \E name \in RegNames, proc \in Procs : register_method(name, proc)
    \/ \E request \in InvokeRequests : invoke_lookup(request)
    \/ invoke_return

SpecInvoke == InitInvoke /\ [][NextInvoke]_vars

(***************************************************************************)
(* SpecBatch: MethodRegistry::invoke_batch on the worker pool               *)
(***************************************************************************)
R_add == Request("add", JArr(<<JInt(1), JInt(2)>>), JInt(1))

R_crash == Request("crash", JArr(<<>>), JInt(2))

R_boom == Request("boom", JNull, JStr("a"))

N_log == Notification("log", JArr(<<JStr("hi")>>))

N_nope == Notification("nope", JArr(<<>>))

N_badparams == Notification("add", JArr(<<JInt(1)>>))

N_boom == Notification("boom", JArr(<<>>))

N_crash == Notification("crash", JNull)

BatchRequests == {R_add, R_crash, R_boom, N_log, N_nope, N_badparams, N_boom, N_crash}

Batches == UNION {[1..n -> BatchRequests] : n \in 0..MaxBatch}

InitBatch ==
    /\ methods_ = Registry
    /\ batch_thread_count_ \in 1..MaxThreads
    /\ InvokeIdle
    /\ ProtocolIdle
    /\ AsyncIdle
    /\ requests \in Batches
    /\ bpc = "idle"
    /\ idx = 1
    /\ pool_queue = <<>>
    /\ workers = [w \in 1..batch_thread_count_ |-> IdleWorker]
    /\ indexed_responses = <<>>
    /\ remaining = 0
    /\ promise = FALSE
    /\ responses = <<>>
    /\ started = [i \in 1..Len(requests) |-> 0]
    /\ finished = [i \in 1..Len(requests) |-> 0]
    /\ SessionIdle
    /\ ServerIdle
    /\ ClientIdle

\* MethodRegistry::get_batch_pool: the pool batch_pool_ points to (it is
\* never null after the constructor)
get_batch_pool == batch_pool_

\* pool_mutex_ is held by no set_batch_concurrency in progress
pool_mutex_free == \A t \in DOMAIN pc : pc[t] # "join"

\* thread_pool::stop leaves the threads of a pool no further task to take
pool_runs(p) == p \notin pool_stopped

\* invoke_batch up to the posting loop: the empty batch returns at once,
\* otherwise the pool is fetched and the counter and the promise are created
batch_enter ==
    /\ bpc = "idle"
    /\ Len(requests) = 0 \/ pool_mutex_free
    /\ IF Len(requests) = 0
       THEN /\ bpc' = "returned"
            /\ responses' = <<>>
            /\ UNCHANGED remaining
       ELSE /\ bpc' = "posting"
            /\ remaining' = Len(requests)
            /\ UNCHANGED responses
    /\ serving' = IF Len(requests) = 0 THEN serving
                  ELSE [serving EXCEPT !.pool = get_batch_pool]
    /\ UNCHANGED <<client_vars, registry_vars, invoke_vars, async_vars, protocol_vars, requests, idx, pool_queue, workers,
                   indexed_responses, promise, started, finished, session_vars,
                   callers, pc, result, sbc_threads, running_, acceptor_ready_,
                   acceptor_open, accept_pending, aborted_queued, accept_failed,
                   io_stopped, worker_thread_, loop, batch_pool_, pool_stopped,
                   session, starts, terminated, peer>>

\* One iteration of the loop: boost::asio::post(*pool, task idx)
batch_post ==
    /\ bpc = "posting"
    /\ pool_queue' = Append(pool_queue, idx)
    /\ idx' = idx + 1
    /\ bpc' = IF idx = Len(requests) THEN "waiting" ELSE "posting"
    /\ UNCHANGED <<server_vars, client_vars, registry_vars, invoke_vars, async_vars, protocol_vars, requests, workers, indexed_responses,
                   remaining, promise, responses, started, finished, session_vars>>

\* A pool thread takes the oldest task and runs it up to the call of the
\* procedure (lookup and parameter extraction included)
task_start(w) ==
    /\ workers[w].phase = "idle"
    /\ pool_queue # <<>>
    /\ pool_runs(serving.pool)
    /\ LET i == Head(pool_queue) IN
       /\ workers' = [workers EXCEPT ![w] = [task |-> i, phase |-> "invoke"]]
       /\ started' = IF BodyRuns(lookup(methods_, requests[i].method), requests[i])
                     THEN [started EXCEPT ![i] = @ + 1]
                     ELSE started
    /\ pool_queue' = Tail(pool_queue)
    /\ UNCHANGED <<server_vars, client_vars, registry_vars, invoke_vars, async_vars, protocol_vars, requests, bpc, idx, indexed_responses,
                   remaining, promise, responses, finished, session_vars>>

\* task_entries with the error of a notification reported like any other
task_entries_reporting(i, request, out) ==
    IF ~out.thrown
    THEN IF request.has_id \/ out.value.is_error
         THEN <<[index |-> i, response |-> out.value]>>
         ELSE <<>>
    ELSE <<[index |-> i,
            response |-> ResponseError(
                Error(InternalError, "batch call failed"), request.id)]>>

\* What task i pushes to indexed_responses: the response of invoke for a
\* request with an id, the catch (...) response if invoke threw, and nothing
\* for a notification
task_entries(i, request, out) ==
    IF ~request.has_id THEN <<>>
    ELSE IF ~out.thrown
         THEN <<[index |-> i, response |-> out.value]>>
         ELSE <<[index |-> i,
                 response |-> ResponseError(
                     Error(InternalError, "batch call failed"), request.id)]>>

\* The try block of the task: invoke returns or throws, and the response of
\* a request with an id is pushed under response_mutex
task_invoke(w) ==
    /\ workers[w].phase = "invoke"
    /\ LET i == workers[w].task
           request == requests[i]
           out == invoke(methods_, request)
       IN /\ indexed_responses' = indexed_responses \o task_entries(i, request, out)
          /\ finished' = IF BodyRuns(lookup(methods_, request.method), request)
                         THEN [finished EXCEPT ![i] = @ + 1]
                         ELSE finished
          /\ workers' = [workers EXCEPT ![w].phase = "count"]
    /\ UNCHANGED <<server_vars, client_vars, registry_vars, invoke_vars, async_vars, protocol_vars, requests, bpc, idx, pool_queue,
                   remaining, promise, responses, started, session_vars>>

\* The comparison of the counter loosened: any task counts as the last
last_task_any(rem) == rem >= 1

\* remaining->fetch_sub(1) == 1
last_task(rem) == rem = 1

\* The end of the task: the last one to decrement sets the promise
task_done(w) ==
    /\ workers[w].phase = "count"
    /\ remaining' = remaining - 1
    /\ promise' = IF last_task(remaining) THEN TRUE ELSE promise
    /\ workers' = [workers EXCEPT ![w] = IdleWorker]
    /\ UNCHANGED <<server_vars, client_vars, registry_vars, invoke_vars, async_vars, protocol_vars, requests, bpc, idx, pool_queue,
                   indexed_responses, responses, started, finished, session_vars>>

\* completion_future.wait() returns; sort, strip the indices, return
batch_return ==
    /\ bpc = "waiting"
    /\ promise
    /\ responses' = strip_index(sort_by_index(indexed_responses))
    /\ bpc' = "returned"
    /\ UNCHANGED <<server_vars, client_vars, registry_vars, invoke_vars, async_vars, protocol_vars, requests, idx, pool_queue, workers,
                   indexed_responses, remaining, promise, started, finished,
                   session_vars>>

NextBatch ==
    \/ batch_enter
    \/ batch_post
    \/ \E w \in 1..batch_thread_count_ : task_start(w)
    \/ \E w \in 1..batch_thread_count_ : task_invoke(w)
    \/ \E w \in 1..batch_thread_count_ : task_done(w)
    \/ batch_return

SpecBatch == InitBatch /\ [][NextBatch]_vars

\* The thread inside invoke_batch and each thread of the pool keep running:
\* every procedure terminates and no thread is starved for ever
FairBatch ==
    /\ WF_vars(batch_enter \/ batch_post \/ batch_return)
    /\ \A w \in 1..MaxThreads :
          WF_vars(w \in DOMAIN workers /\ (task_start(w) \/ task_invoke(w) \/ task_done(w)))

\* The batches of a call that returns, of one that raises and of a
\* notification
TerminationBatches == UNION {[1..n -> {R_add, R_crash, N_log}] : n \in 0..MaxBatch}

InitBatchFair == InitBatch /\ requests \in TerminationBatches

SpecBatchFair == InitBatchFair /\ [][NextBatch]_vars /\ FairBatch

(***************************************************************************)
(* Spec: one ServerSession on the reactor thread.  A completion handler     *)
(* runs to its end: on_read includes process_request, the dispatch of the   *)
(* batch (the reactor thread waits for it) and do_write.                    *)
(***************************************************************************)
J_add ==
    JObj([jsonrpc |-> JStr("2.0"), method |-> JStr("add"),
          params |-> JArr(<<JInt(1), JInt(2)>>), id |-> JInt(1)])

J_nope ==
    JObj([jsonrpc |-> JStr("2.0"), method |-> JStr("nope"),
          params |-> JArr(<<>>), id |-> JInt(7)])

J_log ==
    JObj([jsonrpc |-> JStr("2.0"), method |-> JStr("log"),
          params |-> JArr(<<JStr("hi")>>)])

J_boom_notification == JObj([jsonrpc |-> JStr("2.0"), method |-> JStr("boom")])

J_crash == JObj([jsonrpc |-> JStr("2.0"), method |-> JStr("crash"), id |-> JNull])

J_bad_version ==
    JObj([jsonrpc |-> JStr("1.0"), method |-> JStr("add"), id |-> JInt(5)])

J_no_method == JObj([jsonrpc |-> JStr("2.0"), id |-> JInt(6)])

J_scalar == JInt(1)

Elements == {J_add, J_nope, J_log, J_boom_notification, J_crash,
             J_bad_version, J_no_method, J_scalar}

Bodies ==
    {RawText("{\"jsonrpc\":\"2.0\",\"method\":\"x\",")}
    \cup {serialize(e) : e \in Elements}
    \cup {serialize(JArr(es)) : es \in UNION {[1..n -> Elements] : n \in 0..MaxBodyBatch}}

ContentTypes ==
    {<<>>, <<"application/json">>, <<"application/json", "charset=utf-8">>,
     <<"text/plain">>}

HttpRequests ==
    [verb : {"POST", "GET"}, content_type : ContentTypes, body : Bodies,
     connection : {"none", "close"}]

\* message::keep_alive() of an HTTP/1.1 message: no "close" in Connection
keep_alive(msg) == msg.connection # "close"

\* message::keep_alive(bool) of an HTTP/1.1 message
set_keep_alive(msg, value) ==
    [msg EXCEPT !.connection = IF value THEN "none" ELSE "close"]

\* content_type.find(token) != npos
find(content_type, token) == \E i \in 1..Len(content_type) : content_type[i] = token

\* The checks with the method check and the Content-Type check swapped
http_rejection_swapped(req) ==
    IF ~find(req.content_type, "application/json")
    THEN [res_default EXCEPT !.status = 415,
                             !.content_type = <<"text/plain">>,
                             !.body = RawText("Content-Type must be application/json")]
    ELSE IF req.verb # "POST"
    THEN [res_default EXCEPT !.status = 405,
                             !.content_type = <<"text/plain">>,
                             !.body = RawText("POST only")]
    ELSE res_default

\* process_request, the HTTP checks: the 405 or 415 response, or res_default
\* when the request passes both
http_rejection(req) ==
    IF req.verb # "POST"
    THEN [res_default EXCEPT !.status = 405,
                             !.content_type = <<"text/plain">>,
                             !.body = RawText("POST only")]
    ELSE IF ~find(req.content_type, "application/json")
    THEN [res_default EXCEPT !.status = 415,
                             !.content_type = <<"text/plain">>,
                             !.body = RawText("Content-Type must be application/json")]
    ELSE res_default

\* The catch block answering with 400 Bad Request
parse_error_response_400(e) ==
    [res_default EXCEPT !.status = 400,
                        !.content_type = <<"application/json">>,
                        !.body = serialize_response(ResponseError(e, JNull))]

\* process_request, the catch block of the parse: 200 with an error response
\* of id null
parse_error_response(e) ==
    [res_default EXCEPT !.status = 200,
                        !.content_type = <<"application/json">>,
                        !.body = serialize_response(ResponseError(e, JNull))]

\* is_batch decided by the number of requests alone
is_batch_by_size(reqs, body) == Len(reqs) > 1

\* process_request: is_batch
is_batch(reqs, body) == Len(reqs) > 1 \/ is_batch_request(json_parse(body).value)

\* process_request, after a successful parse: the response built from what
\* invoke_batch returned, keep-alive copied from the request
dispatch_response(req, reqs, resps) ==
    LET ok == [res_default EXCEPT !.status = 200,
                                  !.content_type = <<"application/json">>]
        filled == IF is_batch(reqs, req.body)
                  THEN [ok EXCEPT !.body = serialize_batch_response(resps)]
                  ELSE IF Len(resps) # 0
                       THEN [ok EXCEPT !.body = serialize_response(resps[1])]
                       ELSE [ok EXCEPT !.status = 204]
    IN set_keep_alive(filled, keep_alive(req))

\* ServerSession::log: the number of messages that reach the hook
log(n) == IF logger_ THEN n ELSE 0

Init ==
    /\ methods_ = Registry
    /\ batch_thread_count_ = 2
    /\ InvokeIdle
    /\ ProtocolIdle
    /\ AsyncIdle
    /\ BatchIdle
    /\ state = "Reading"
    /\ req_ = req_default
    /\ res_ = res_default
    /\ close = FALSE
    /\ logger_ \in BOOLEAN
    /\ logged = 0
    /\ shutdown_send = FALSE
    /\ body_parsed = FALSE
    /\ last_ec = "ok"
    /\ served = FALSE
    /\ ServerIdle
    /\ ClientIdle

\* ServerSession::do_close that leaves the session reading
do_close_still_reading ==
    /\ shutdown_send' = TRUE
    /\ state' = "Reading"

\* ServerSession::do_close
do_close ==
    /\ shutdown_send' = TRUE
    /\ state' = "Closed"

\* ServerSession::process_request, with the do_write that ends each branch
process_request(req) ==
    LET rejected == http_rejection(req)
        parsed == parse_request(req.body)
    IN /\ state' = "Writing"
       /\ IF rejected # res_default
          THEN /\ res_' = rejected
               /\ logged' = logged + log(1)
               /\ body_parsed' = FALSE
               /\ requests' = <<>>
               /\ responses' = <<>>
               /\ started' = <<>>
               /\ finished' = <<>>
          ELSE /\ body_parsed' = TRUE
               /\ IF parsed.thrown
                  THEN /\ res_' = parse_error_response(parsed.payload)
                       /\ logged' = logged + log(1)
                       /\ requests' = <<>>
                       /\ responses' = <<>>
                       /\ started' = <<>>
                       /\ finished' = <<>>
                  ELSE /\ requests' = parsed.value
                       /\ responses' = invoke_batch(methods_, requests')
                       /\ started' = [i \in 1..Len(requests') |->
                             IF BodyRuns(lookup(methods_, requests'[i].method), requests'[i])
                             THEN 1 ELSE 0]
                       /\ finished' = started'
                       /\ res_' = dispatch_response(req, requests', responses')
                       /\ logged' = logged
       /\ close' = ~keep_alive(res_')

\* An async_read started while the response is still being written
async_read_pending_while_writing == state \in {"Reading", "Writing"}

\* ServerSession::do_read has started an async_read that has not completed:
\* do_read is called by start and by on_write after a complete write only
async_read_pending == state = "Reading"

\* ServerSession::on_read
on_read(ec, req) ==
    /\ async_read_pending
    /\ last_ec' = ec
    /\ CASE ec = "end_of_stream" ->
              /\ do_close
              /\ UNCHANGED <<req_, res_, close, logged, body_parsed,
                             requests, responses, started, finished>>
         [] ec = "timeout" ->
              /\ logged' = logged + log(1)
              /\ state' = "Closed"
              /\ UNCHANGED <<req_, res_, close, shutdown_send, body_parsed,
                             requests, responses, started, finished>>
         [] ec = "ok" ->
              /\ req_' = req
              /\ process_request(req)
              /\ UNCHANGED shutdown_send
    /\ UNCHANGED <<server_vars, client_vars, registry_vars, invoke_vars, async_vars, protocol_vars, bpc, idx, pool_queue, workers,
                   indexed_responses, remaining, promise, logger_, served>>

\* ServerSession::on_write, with the do_read or do_close it ends in
on_write(ec) ==
    /\ state = "Writing"
    /\ last_ec' = ec
    /\ CASE ec = "error" ->
              /\ logged' = logged + log(1)
              /\ state' = "Closed"
              /\ UNCHANGED <<req_, shutdown_send, body_parsed, served,
                             requests, responses, started, finished>>
         [] ec = "ok" /\ close ->
              /\ do_close
              /\ served' = TRUE
              /\ UNCHANGED <<req_, logged, body_parsed,
                             requests, responses, started, finished>>
         [] ec = "ok" /\ ~close ->
              /\ served' = TRUE
              /\ req_' = req_default
              /\ state' = "Reading"
              /\ logged' = 0
              /\ body_parsed' = FALSE
              /\ requests' = <<>>
              /\ responses' = <<>>
              /\ started' = <<>>
              /\ finished' = <<>>
              /\ UNCHANGED shutdown_send
    /\ UNCHANGED <<server_vars, client_vars, registry_vars, invoke_vars, async_vars, protocol_vars, bpc, idx, pool_queue, workers,
                   indexed_responses, remaining, promise, res_, close, logger_>>

\* A failed read hands on_read no message: req_ is what the handler sees
Next ==
    \/ \E req \in HttpRequests : on_read("ok", req)
    \/ \E ec \in {"end_of_stream", "timeout"} : on_read(ec, req_)
    \/ \E ec \in {"ok", "error"} : on_write(ec)

Spec == Init /\ [][Next]_vars

(***************************************************************************)
(* SpecServer, SpecThreads: the life cycle of a Server, its reactor loop   *)
(* and the worker pool of its registry                                      *)
(***************************************************************************)
MaxStarts == 2

MaxPools == 1

Threads == {"t1", "t2"}

LoopThreads == Threads \cup {"w"}

Call(t, op, r) == [thread |-> t, op |-> op, r |-> r]

is_running_never == FALSE

\* Server::is_running
is_running == running_

try_enter_running_forced(r) == [ok |-> TRUE, running |-> TRUE]

\* Server::Impl::try_enter_running: compare_exchange_strong(false, true)
try_enter_running(r) == [ok |-> ~r, running |-> TRUE]

\* Server::Impl::prepare_acceptor
prepare_acceptor(ready, open) ==
    IF ready THEN [ready |-> ready, open |-> open]
             ELSE [ready |-> TRUE, open |-> TRUE]

teardown_acceptor_flag_kept(ready, open) ==
    IF ~ready THEN [ready |-> ready, open |-> open]
              ELSE [ready |-> ready, open |-> FALSE]

\* Server::Impl::teardown_acceptor
teardown_acceptor(ready, open) ==
    IF ~ready THEN [ready |-> ready, open |-> open]
              ELSE [ready |-> FALSE, open |-> FALSE]

\* the reactor has nothing left to wait for: io_context_.run() returns
out_of_work ==
    /\ ~accept_pending /\ ~aborted_queued
    /\ session.st # "reading" /\ peer.st # "reading"

InitServer ==
    /\ methods_ = Registry
    /\ batch_thread_count_ = 2
    /\ InvokeIdle
    /\ ProtocolIdle
    /\ AsyncIdle
    /\ BatchIdle
    /\ SessionIdle
    /\ ClientIdle
    /\ callers = {"t1"}
    /\ pc = [t \in Threads |-> "idle"]
    /\ result = NoCall
    /\ sbc_threads = [t \in Threads |-> 0]
    /\ running_ = FALSE
    /\ acceptor_ready_ = TRUE
    /\ acceptor_open = TRUE
    /\ accept_pending = FALSE
    /\ aborted_queued = FALSE
    /\ accept_failed = FALSE
    /\ io_stopped = FALSE
    /\ worker_thread_ = "null"
    /\ loop = [x \in LoopThreads |-> "out"]
    /\ batch_pool_ = 0
    /\ pool_stopped = {}
    /\ session = NoSession
    /\ serving = NoServing
    /\ peer = NoPeer
    /\ starts = 0
    /\ terminated = FALSE

\* Server::Impl::prepare_acceptor with the failures of acceptor_.open() and
\* of bind()/listen(), which throw boost::system::system_error before
\* acceptor_ready_ is set: fail names the call the system refuses, and
\* open() on an acceptor left open by a failed bind throws already_open
prepare_acceptor_outcome(ready, open, fail) ==
    IF ready THEN [thrown |-> FALSE, ready |-> ready, open |-> open]
    ELSE IF open THEN [thrown |-> TRUE, ready |-> FALSE, open |-> TRUE]
    ELSE CASE fail = "none" -> [thrown |-> FALSE, ready |-> TRUE, open |-> TRUE]
           [] fail = "open" -> [thrown |-> TRUE, ready |-> FALSE, open |-> FALSE]
           [] fail = "bind" -> [thrown |-> TRUE, ready |-> FALSE, open |-> TRUE]

\* Server::run without its RunningGuard
RunningGuard_absent(r) == r

\* Server::run: ~RunningGuard calls leave_running
RunningGuard(r) == FALSE

\* Server::Impl::prepare_acceptor followed by Server::Impl::do_accept
prepare_and_accept ==
    LET a == prepare_acceptor(acceptor_ready_, acceptor_open)
    IN /\ acceptor_ready_' = a.ready
       /\ acceptor_open' = a.open
       /\ IF a.open
          THEN accept_pending' = TRUE /\ UNCHANGED accept_failed
          ELSE accept_failed' = TRUE /\ UNCHANGED accept_pending

\* Server::start / Server::Impl::start_async: the test of the running flag
start_async(t) ==
    /\ ~terminated /\ t \in callers /\ pc[t] = "idle"
    /\ running_ \/ starts < MaxStarts
    /\ LET e == try_enter_running(running_)
       IN IF ~e.ok
          THEN /\ result' = Call(t, "start", "logic_error")
               /\ UNCHANGED <<pc, running_, starts>>
          ELSE /\ running_' = e.running
               /\ pc' = [pc EXCEPT ![t] = "start_accept"]
               /\ starts' = starts + 1
               /\ UNCHANGED result
    /\ UNCHANGED <<registry_vars, invoke_vars, async_vars, protocol_vars, batch_vars, started, finished,
                   session_vars, client_vars, callers, sbc_threads,
                   acceptor_ready_, acceptor_open, accept_pending, aborted_queued,
                   accept_failed, io_stopped, worker_thread_, loop, batch_pool_,
                   pool_stopped, session, serving, terminated, peer>>

\* Server::Impl::start_async: prepare_acceptor and do_accept; an exception
\* of prepare_acceptor leaves start_async at once
start_accept(t, fail) ==
    /\ ~terminated /\ pc[t] = "start_accept"
    /\ LET a == prepare_acceptor_outcome(acceptor_ready_, acceptor_open, fail)
       IN IF a.thrown
          THEN /\ acceptor_ready_' = a.ready
               /\ acceptor_open' = a.open
               /\ pc' = [pc EXCEPT ![t] = "idle"]
               /\ result' = Call(t, "start", "system_error")
               /\ UNCHANGED <<accept_pending, accept_failed>>
          ELSE /\ prepare_and_accept
               /\ pc' = [pc EXCEPT ![t] = "start_thread"]
               /\ UNCHANGED result
    /\ UNCHANGED <<registry_vars, invoke_vars, async_vars, protocol_vars, batch_vars, started, finished,
                   session_vars, client_vars, callers, sbc_threads,
                   running_, aborted_queued, io_stopped, worker_thread_, loop,
                   batch_pool_, pool_stopped, session, serving, starts,
                   terminated, peer>>

\* Server::Impl::start_async: worker_thread_.reset(new std::thread(...));
\* destroying a std::thread that is still joinable calls std::terminate
start_thread(t) ==
    /\ ~terminated /\ pc[t] = "start_thread"
    /\ pc' = [pc EXCEPT ![t] = "idle"]
    /\ IF worker_thread_ # "null"
       THEN /\ terminated' = TRUE
            /\ UNCHANGED <<worker_thread_, loop, result>>
       ELSE /\ worker_thread_' = "joinable"
            /\ loop' = [loop EXCEPT !["w"] = "idle"]
            /\ result' = Call(t, "start", "ok")
            /\ UNCHANGED terminated
    /\ UNCHANGED <<registry_vars, invoke_vars, async_vars, protocol_vars, batch_vars, started, finished,
                   session_vars, client_vars, callers, sbc_threads, running_,
                   acceptor_ready_, acceptor_open, accept_pending, aborted_queued,
                   accept_failed, io_stopped, batch_pool_, pool_stopped, session,
                   serving, starts, peer>>

\* Server::run: the test of the running flag
run(t) ==
    /\ ~terminated /\ t \in callers /\ pc[t] = "idle"
    /\ running_ \/ starts < MaxStarts
    /\ LET e == try_enter_running(running_)
       IN IF ~e.ok
          THEN /\ result' = Call(t, "run", "logic_error")
               /\ UNCHANGED <<pc, running_, starts>>
          ELSE /\ running_' = e.running
               /\ pc' = [pc EXCEPT ![t] = "run_accept"]
               /\ starts' = starts + 1
               /\ UNCHANGED result
    /\ UNCHANGED <<registry_vars, invoke_vars, async_vars, protocol_vars, batch_vars, started, finished,
                   session_vars, client_vars, callers, sbc_threads,
                   acceptor_ready_, acceptor_open, accept_pending, aborted_queued,
                   accept_failed, io_stopped, worker_thread_, loop, batch_pool_,
                   pool_stopped, session, serving, terminated, peer>>

\* Server::run: prepare_acceptor, do_accept and the entry into
\* io_context::run; an exception of prepare_acceptor unwinds through the
\* RunningGuard
run_accept(t, fail) ==
    /\ ~terminated /\ pc[t] = "run_accept"
    /\ LET a == prepare_acceptor_outcome(acceptor_ready_, acceptor_open, fail)
       IN IF a.thrown
          THEN /\ acceptor_ready_' = a.ready
               /\ acceptor_open' = a.open
               /\ running_' = RunningGuard(running_)
               /\ pc' = [pc EXCEPT ![t] = "idle"]
               /\ result' = Call(t, "run", "system_error")
               /\ UNCHANGED <<accept_pending, accept_failed, loop>>
          ELSE /\ prepare_and_accept
               /\ pc' = [pc EXCEPT ![t] = "in_run"]
               /\ loop' = [loop EXCEPT ![t] = "idle"]
               /\ UNCHANGED <<running_, result>>
    /\ UNCHANGED <<registry_vars, invoke_vars, async_vars, protocol_vars, batch_vars, started, finished,
                   session_vars, client_vars, callers, sbc_threads,
                   aborted_queued, io_stopped, worker_thread_,
                   batch_pool_, pool_stopped, session, serving, starts,
                   terminated, peer>>

\* Server::Impl::on_accept, run by a thread inside io_context::run
on_accept(x, ec) ==
    /\ ~terminated /\ loop[x] = "idle" /\ ~io_stopped
    /\ CASE ec = "operation_aborted" ->
              /\ aborted_queued
              /\ aborted_queued' = FALSE
              /\ UNCHANGED <<session, accept_failed>>
         [] ec = "error" ->
              /\ accept_pending
              /\ accept_failed' = TRUE
              /\ UNCHANGED <<session, aborted_queued>>
         [] ec = "ok" ->
              /\ accept_pending /\ session = NoSession
              /\ session' = [st |-> "reading", cycle |-> starts]
              /\ UNCHANGED <<aborted_queued, accept_failed>>
    /\ UNCHANGED <<registry_vars, invoke_vars, async_vars, protocol_vars, batch_vars, started, finished,
                   session_vars, client_vars, callers, pc, result, sbc_threads,
                   running_, acceptor_ready_, acceptor_open, accept_pending,
                   io_stopped, worker_thread_, loop, batch_pool_, pool_stopped,
                   serving, starts, terminated, peer>>

\* ServerSession::on_read and process_request, run by a thread inside
\* io_context::run: a rejected or unparsable request is answered at once, any
\* other body, single or batch, goes to invoke_batch, which posts to the pool
\* it got from get_batch_pool and waits
session_read(x, body) ==
    /\ ~terminated /\ loop[x] = "idle" /\ ~io_stopped
    /\ session.st = "reading"
    /\ IF body = "rejected"
       THEN /\ session' = NoSession
            /\ UNCHANGED <<loop, serving>>
       ELSE /\ session' = [session EXCEPT !.st = "processing"]
            /\ loop' = [loop EXCEPT ![x] = "handler"]
            /\ serving' = [thread |-> x, body |-> body, pool |-> batch_pool_,
                           done |-> FALSE, executor |-> "none"]
    /\ UNCHANGED <<registry_vars, invoke_vars, async_vars, protocol_vars, batch_vars, started, finished,
                   session_vars, client_vars, callers, pc, result, sbc_threads,
                   running_, acceptor_ready_, acceptor_open, accept_pending,
                   aborted_queued, accept_failed, io_stopped, worker_thread_,
                   batch_pool_, pool_stopped, starts, terminated, peer>>

\* the task lambdas of invoke_batch, run by the threads of the pool they were
\* posted to; a stopped pool runs no task
pool_task ==
    /\ ~terminated
    /\ serving.thread # "none" /\ ~serving.done
    /\ serving.pool \notin pool_stopped
    /\ serving' = [serving EXCEPT !.done = TRUE, !.executor = "pool"]
    /\ UNCHANGED <<registry_vars, invoke_vars, async_vars, protocol_vars, batch_vars, started, finished,
                   session_vars, client_vars, callers, pc, result, sbc_threads,
                   running_, acceptor_ready_, acceptor_open, accept_pending,
                   aborted_queued, accept_failed, io_stopped, worker_thread_,
                   loop, batch_pool_, pool_stopped, session, starts,
                   terminated, peer>>

\* invoke_batch returns to process_request, which writes the response
session_write(x) ==
    /\ ~terminated /\ loop[x] = "handler"
    /\ serving.thread = x /\ serving.done
    /\ loop' = [loop EXCEPT ![x] = "idle"]
    /\ serving' = [serving EXCEPT !.thread = "none"]
    /\ session' = NoSession
    /\ UNCHANGED <<registry_vars, invoke_vars, async_vars, protocol_vars, batch_vars, started, finished,
                   session_vars, client_vars, callers, pc, result, sbc_threads,
                   running_, acceptor_ready_, acceptor_open, accept_pending,
                   aborted_queued, accept_failed, io_stopped, worker_thread_,
                   batch_pool_, pool_stopped, starts, terminated, peer>>

\* io_context::run returns: the context was stopped or has run out of work
run_return(x) ==
    /\ ~terminated /\ loop[x] = "idle"
    /\ io_stopped \/ out_of_work
    /\ loop' = [loop EXCEPT ![x] = "returned"]
    /\ UNCHANGED <<registry_vars, invoke_vars, async_vars, protocol_vars, batch_vars, started, finished,
                   session_vars, client_vars, callers, pc, result, sbc_threads,
                   running_, acceptor_ready_, acceptor_open, accept_pending,
                   aborted_queued, accept_failed, io_stopped, worker_thread_,
                   batch_pool_, pool_stopped, session, serving, starts,
                   terminated, peer>>

\* after io_context::run: io_context_.restart() and leave_running(), by the
\* worker thread of start_async or by the RunningGuard of Server::run
loop_exit(x) ==
    /\ ~terminated /\ loop[x] = "returned"
    /\ loop' = [loop EXCEPT ![x] = "out"]
    /\ io_stopped' = FALSE
    /\ running_' = IF x \in Threads THEN RunningGuard(running_) ELSE FALSE
    /\ IF x \in Threads
       THEN /\ pc' = [pc EXCEPT ![x] = "idle"]
            /\ result' = Call(x, "run", "ok")
       ELSE UNCHANGED <<pc, result>>
    /\ UNCHANGED <<registry_vars, invoke_vars, async_vars, protocol_vars, batch_vars, started, finished,
                   session_vars, client_vars, callers, sbc_threads,
                   acceptor_ready_, acceptor_open, accept_pending, aborted_queued,
                   accept_failed, worker_thread_, batch_pool_, pool_stopped,
                   session, serving, starts, terminated, peer>>

\* Server::stop / Server::Impl::stop: running_.exchange(false)
stop(t) ==
    /\ ~terminated /\ t \in callers /\ pc[t] = "idle"
    /\ IF ~running_
       THEN /\ result' = Call(t, "stop", "ok")
            /\ UNCHANGED <<pc, running_>>
       ELSE /\ running_' = FALSE
            /\ pc' = [pc EXCEPT ![t] = "stop_teardown"]
            /\ UNCHANGED result
    /\ UNCHANGED <<registry_vars, invoke_vars, async_vars, protocol_vars, batch_vars, started, finished,
                   session_vars, client_vars, callers, sbc_threads,
                   acceptor_ready_, acceptor_open, accept_pending, aborted_queued,
                   accept_failed, io_stopped, worker_thread_, loop, batch_pool_,
                   pool_stopped, session, serving, starts, terminated, peer>>

\* Server::Impl::stop: teardown_acceptor and io_context_.stop()
stop_teardown(t) ==
    /\ ~terminated /\ pc[t] = "stop_teardown"
    /\ LET a == teardown_acceptor(acceptor_ready_, acceptor_open)
       IN /\ acceptor_ready_' = a.ready
          /\ acceptor_open' = a.open
          /\ IF acceptor_open /\ ~a.open /\ accept_pending
             THEN accept_pending' = FALSE /\ aborted_queued' = TRUE
             ELSE UNCHANGED <<accept_pending, aborted_queued>>
    /\ io_stopped' = TRUE
    /\ pc' = [pc EXCEPT ![t] = "stop_join"]
    /\ UNCHANGED <<registry_vars, invoke_vars, async_vars, protocol_vars, batch_vars, started, finished,
                   session_vars, client_vars, callers, result, sbc_threads,
                   running_, accept_failed, worker_thread_, loop, batch_pool_,
                   pool_stopped, session, serving, starts, terminated, peer>>

\* Server::Impl::stop: join of the worker thread, if there is one, then
\* worker_thread_.reset() and io_context_.restart()
stop_join(t) ==
    /\ ~terminated /\ pc[t] = "stop_join"
    /\ worker_thread_ = "null" \/ loop["w"] = "out"
    /\ worker_thread_' = "null"
    /\ io_stopped' = FALSE
    /\ pc' = [pc EXCEPT ![t] = "idle"]
    /\ result' = Call(t, "stop", "ok")
    /\ UNCHANGED <<registry_vars, invoke_vars, async_vars, protocol_vars, batch_vars, started, finished,
                   session_vars, client_vars, callers, sbc_threads, running_,
                   acceptor_ready_, acceptor_open, accept_pending, aborted_queued,
                   accept_failed, loop, batch_pool_, pool_stopped, session,
                   serving, starts, terminated, peer>>

\* Server::set_batch_concurrency: the test of is_running()
set_batch_concurrency(t, threads) ==
    /\ ~terminated /\ t \in callers /\ pc[t] = "idle"
    /\ is_running \/ batch_pool_ < MaxPools
    /\ IF is_running
       THEN /\ result' = Call(t, "set_batch_concurrency", "logic_error")
            /\ UNCHANGED <<pc, sbc_threads>>
       ELSE /\ pc' = [pc EXCEPT ![t] = "resize"]
            /\ sbc_threads' = [sbc_threads EXCEPT ![t] = threads]
            /\ UNCHANGED result
    /\ UNCHANGED <<registry_vars, invoke_vars, async_vars, protocol_vars, batch_vars, started, finished,
                   session_vars, client_vars, callers, running_,
                   acceptor_ready_, acceptor_open, accept_pending, aborted_queued,
                   accept_failed, io_stopped, worker_thread_, loop, batch_pool_,
                   pool_stopped, session, serving, starts, terminated, peer>>

\* MethodRegistry::set_batch_concurrency: under pool_mutex_ the old pool is
\* stopped and joined and a pool of the new size takes its place
resize(t) ==
    /\ ~terminated /\ pc[t] = "resize"
    /\ batch_thread_count_' = IF sbc_threads[t] = 0 THEN 1 ELSE sbc_threads[t]
    /\ pool_stopped' = pool_stopped \cup {batch_pool_}
    /\ batch_pool_' = batch_pool_ + 1
    /\ workers' = [w \in 1..batch_thread_count_' |-> IdleWorker]
    /\ pc' = [pc EXCEPT ![t] = "idle"]
    /\ result' = Call(t, "set_batch_concurrency", "ok")
    /\ sbc_threads' = [sbc_threads EXCEPT ![t] = 0]
    /\ UNCHANGED <<methods_, invoke_vars, async_vars, protocol_vars, requests, bpc, idx, pool_queue,
                   indexed_responses, remaining, promise, responses, started,
                   finished, session_vars, client_vars, callers,
                   running_, acceptor_ready_, acceptor_open, accept_pending,
                   aborted_queued, accept_failed, io_stopped, worker_thread_,
                   loop, session, serving, starts, terminated, peer>>

NextServer ==
    \/ \E t \in Threads : start_async(t)
    \/ \E t \in Threads, fail \in {"none", "open", "bind"} : start_accept(t, fail)
    \/ \E t \in Threads : start_thread(t)
    \/ \E t \in Threads : run(t)
    \/ \E t \in Threads, fail \in {"none", "open", "bind"} : run_accept(t, fail)
    \/ \E x \in LoopThreads, ec \in {"ok", "operation_aborted", "error"} : on_accept(x, ec)
    \/ \E x \in LoopThreads, body \in {"single", "batch", "rejected"} : session_read(x, body)
    \/ pool_task
    \/ \E x \in LoopThreads : session_write(x)
    \/ \E x \in LoopThreads : run_return(x)
    \/ \E x \in LoopThreads : loop_exit(x)
    \/ \E t \in Threads : stop(t)
    \/ \E t \in Threads : stop_teardown(t)
    \/ \E t \in Threads : stop_join(t)
    \/ \E t \in Threads, threads \in 0..MaxThreads : set_batch_concurrency(t, threads)
    \/ \E t \in Threads : resize(t)

\* one thread calls the interface of the server
SpecServer == InitServer /\ [][NextServer]_vars

InitThreads ==
    /\ methods_ = Registry
    /\ batch_thread_count_ = 2
    /\ InvokeIdle
    /\ ProtocolIdle
    /\ AsyncIdle
    /\ BatchIdle
    /\ SessionIdle
    /\ ClientIdle
    /\ callers = Threads
    /\ pc = [t \in Threads |-> "idle"]
    /\ result = NoCall
    /\ sbc_threads = [t \in Threads |-> 0]
    /\ running_ = FALSE
    /\ acceptor_ready_ = TRUE
    /\ acceptor_open = TRUE
    /\ accept_pending = FALSE
    /\ aborted_queued = FALSE
    /\ accept_failed = FALSE
    /\ io_stopped = FALSE
    /\ worker_thread_ = "null"
    /\ loop = [x \in LoopThreads |-> "out"]
    /\ batch_pool_ = 0
    /\ pool_stopped = {}
    /\ session = NoSession
    /\ serving = NoServing
    /\ peer = NoPeer
    /\ starts = 0
    /\ terminated = FALSE

\* two threads call the interface of the server
SpecThreads == InitThreads /\ [][NextServer]_vars

(***************************************************************************)
(* SpecReactor: the server with a second connection accepted while the     *)
(* first is open                                                            *)
(***************************************************************************)
\* Server::Impl::on_accept for a connection that arrives while the session
\* of an earlier one exists; do_accept is called again
on_accept_peer(x) ==
    /\ ~terminated /\ loop[x] = "idle" /\ ~io_stopped
    /\ accept_pending
    /\ session # NoSession /\ peer.st = "none"
    /\ peer' = [peer EXCEPT !.st = "reading"]
    /\ UNCHANGED <<registry_vars, invoke_vars, async_vars, protocol_vars, batch_vars, started, finished,
                   session_vars, client_vars, callers, pc, result, sbc_threads,
                   running_, acceptor_ready_, acceptor_open, accept_pending,
                   aborted_queued, accept_failed, io_stopped, worker_thread_,
                   loop, batch_pool_, pool_stopped, session, serving, starts,
                   terminated>>

\* ServerSession::on_read and process_request of the second session, up to
\* the wait inside invoke_batch
peer_read(x) ==
    /\ ~terminated /\ loop[x] = "idle" /\ ~io_stopped
    /\ peer.st = "reading"
    /\ peer' = [st |-> "processing", thread |-> x, pool |-> batch_pool_,
                done |-> FALSE]
    /\ loop' = [loop EXCEPT ![x] = "handler"]
    /\ UNCHANGED <<registry_vars, invoke_vars, async_vars, protocol_vars, batch_vars, started, finished,
                   session_vars, client_vars, callers, pc, result, sbc_threads,
                   running_, acceptor_ready_, acceptor_open, accept_pending,
                   aborted_queued, accept_failed, io_stopped, worker_thread_,
                   batch_pool_, pool_stopped, session, serving, starts,
                   terminated>>

\* the task lambdas of the second session's invoke_batch
peer_pool_task ==
    /\ ~terminated
    /\ peer.st = "processing" /\ ~peer.done
    /\ peer.pool \notin pool_stopped
    /\ peer' = [peer EXCEPT !.done = TRUE]
    /\ UNCHANGED <<registry_vars, invoke_vars, async_vars, protocol_vars, batch_vars, started, finished,
                   session_vars, client_vars, callers, pc, result, sbc_threads,
                   running_, acceptor_ready_, acceptor_open, accept_pending,
                   aborted_queued, accept_failed, io_stopped, worker_thread_,
                   loop, batch_pool_, pool_stopped, session, serving, starts,
                   terminated>>

\* invoke_batch returns to process_request of the second session, which
\* writes the response
peer_write(x) ==
    /\ ~terminated /\ loop[x] = "handler"
    /\ peer.thread = x /\ peer.done
    /\ loop' = [loop EXCEPT ![x] = "idle"]
    /\ peer' = [peer EXCEPT !.st = "none", !.thread = "none"]
    /\ UNCHANGED <<registry_vars, invoke_vars, async_vars, protocol_vars, batch_vars, started, finished,
                   session_vars, client_vars, callers, pc, result, sbc_threads,
                   running_, acceptor_ready_, acceptor_open, accept_pending,
                   aborted_queued, accept_failed, io_stopped, worker_thread_,
                   batch_pool_, pool_stopped, session, serving, starts,
                   terminated>>

\* the calls that start and stop the server and the handlers of two sessions
NextReactor ==
    \/ \E t \in Threads : start_async(t)
    \/ \E t \in Threads : start_accept(t, "none")
    \/ \E t \in Threads : start_thread(t)
    \/ \E t \in Threads : run(t)
    \/ \E t \in Threads : run_accept(t, "none")
    \/ \E x \in LoopThreads, ec \in {"ok", "operation_aborted"} : on_accept(x, ec)
    \/ \E x \in LoopThreads : on_accept_peer(x)
    \/ \E x \in LoopThreads : session_read(x, "batch")
    \/ \E x \in LoopThreads : peer_read(x)
    \/ pool_task
    \/ peer_pool_task
    \/ \E x \in LoopThreads : session_write(x)
    \/ \E x \in LoopThreads : peer_write(x)
    \/ \E x \in LoopThreads : run_return(x)
    \/ \E x \in LoopThreads : loop_exit(x)
    \/ \E t \in Threads : stop(t)
    \/ \E t \in Threads : stop_teardown(t)
    \/ \E t \in Threads : stop_join(t)

\* two threads call the interface of the server
SpecReactorThreads == InitThreads /\ [][NextReactor]_vars

(***************************************************************************)
(* SpecResize: MethodRegistry::set_batch_concurrency called by one thread   *)
(* while another thread calls invoke_batch on the same registry             *)
(***************************************************************************)
ResizeBatches == UNION {[1..n -> {R_add, N_log}] : n \in 0..MaxBatch}

InitResize ==
    /\ methods_ = Registry
    /\ batch_thread_count_ = 2
    /\ InvokeIdle
    /\ ProtocolIdle
    /\ AsyncIdle
    /\ requests \in ResizeBatches
    /\ bpc = "idle"
    /\ idx = 1
    /\ pool_queue = <<>>
    /\ workers = [w \in 1..batch_thread_count_ |-> IdleWorker]
    /\ indexed_responses = <<>>
    /\ remaining = 0
    /\ promise = FALSE
    /\ responses = <<>>
    /\ started = [i \in 1..Len(requests) |-> 0]
    /\ finished = [i \in 1..Len(requests) |-> 0]
    /\ SessionIdle
    /\ ClientIdle
    /\ callers = {"t2"}
    /\ pc = [t \in Threads |-> "idle"]
    /\ result = NoCall
    /\ sbc_threads = [t \in Threads |-> 0]
    /\ running_ = FALSE
    /\ acceptor_ready_ = TRUE
    /\ acceptor_open = TRUE
    /\ accept_pending = FALSE
    /\ aborted_queued = FALSE
    /\ accept_failed = FALSE
    /\ io_stopped = FALSE
    /\ worker_thread_ = "null"
    /\ loop = <<>>
    /\ batch_pool_ = 0
    /\ pool_stopped = {}
    /\ session = NoSession
    /\ serving = NoServing
    /\ peer = NoPeer
    /\ starts = 0
    /\ terminated = FALSE

\* MethodRegistry::set_batch_concurrency up to batch_pool_->stop(): 0 becomes
\* 1, pool_mutex_ is taken, batch_thread_count_ is written, the pool stopped
MethodRegistry_set_batch_concurrency(t, threads) ==
    /\ t \in callers /\ pc[t] = "idle"
    /\ batch_pool_ < MaxPools
    /\ batch_thread_count_' = IF threads = 0 THEN 1 ELSE threads
    /\ pool_stopped' = pool_stopped \cup {batch_pool_}
    /\ pc' = [pc EXCEPT ![t] = "join"]
    /\ UNCHANGED <<methods_, invoke_vars, async_vars, protocol_vars, batch_vars,
                   started, finished, session_vars, client_vars, callers, result,
                   sbc_threads, running_, acceptor_ready_, acceptor_open,
                   accept_pending, aborted_queued, accept_failed, io_stopped,
                   worker_thread_, loop, batch_pool_, session, serving, starts,
                   terminated, peer>>

\* MethodRegistry::set_batch_concurrency from batch_pool_->join(): the
\* threads of the old pool have finished the task they were in, and a pool of
\* batch_thread_count_ threads takes its place
MethodRegistry_join(t) ==
    /\ pc[t] = "join"
    /\ \A w \in DOMAIN workers : workers[w] = IdleWorker
    /\ batch_pool_' = batch_pool_ + 1
    /\ workers' = [w \in 1..batch_thread_count_ |-> IdleWorker]
    /\ pc' = [pc EXCEPT ![t] = "idle"]
    /\ result' = Call(t, "set_batch_concurrency", "ok")
    /\ UNCHANGED <<registry_vars, invoke_vars, async_vars, protocol_vars,
                   requests, bpc, idx, pool_queue, indexed_responses, remaining,
                   promise, responses, started, finished, session_vars,
                   client_vars, callers, sbc_threads, running_, acceptor_ready_,
                   acceptor_open, accept_pending, aborted_queued, accept_failed,
                   io_stopped, worker_thread_, loop, pool_stopped, session,
                   serving, starts, terminated, peer>>

NextResize ==
    \/ batch_enter
    \/ batch_post
    \/ \E w \in DOMAIN workers : task_start(w)
    \/ \E w \in DOMAIN workers : task_invoke(w)
    \/ \E w \in DOMAIN workers : task_done(w)
    \/ batch_return
    \/ \E t \in Threads, threads \in 0..MaxThreads : MethodRegistry_set_batch_concurrency(t, threads)
    \/ \E t \in Threads : MethodRegistry_join(t)

SpecResize == InitResize /\ [][NextResize]_vars

(***************************************************************************)
(* SpecClient: the synchronous operations of a Client against a peer        *)
(***************************************************************************)
\* Request::to_json
Request_to_json(request) ==
    LET base == [jsonrpc |-> JStr("2.0"), method |-> JStr(request.method)]
        withp == IF is_null(request.params) THEN base
                 ELSE [k \in DOMAIN base \cup {"params"} |->
                         IF k = "params" THEN request.params ELSE base[k]]
    IN JObj(IF request.has_id
            THEN [k \in DOMAIN withp \cup {"id"} |->
                    IF k = "id" THEN request.id ELSE withp[k]]
            ELSE withp)

\* Protocol::serialize_request
serialize_request(request) == serialize(Request_to_json(request))

\* Protocol::serialize_batch_request
serialize_batch_request(reqs) ==
    serialize(JArr([i \in 1..Len(reqs) |-> Request_to_json(reqs[i])]))

\* The bits of int kept where an error code is narrowed: the fewest that hold
\* every ErrorCode
CodeBits == 17

\* static_cast<int>(int64_t) of an error code
static_cast_code(v) ==
    ((v + 2 ^ (CodeBits - 1)) % (2 ^ CodeBits)) - 2 ^ (CodeBits - 1)

\* Response::from_json.  With a data member the Error is built a second time
\* from message, which std::move(message) has left in a valid but unspecified
\* state: kept says whether it still holds its text.
Response_from_json(jv, kept) ==
    IF ~is_object(jv) THEN ThrowError(InvalidRequest, "response must be a JSON object")
    ELSE LET obj == jv.v IN
      IF \/ ~contains(obj, "jsonrpc")
         \/ ~is_string(obj.jsonrpc)
         \/ obj.jsonrpc.v # "2.0"
      THEN ThrowError(InvalidRequest, "missing or invalid jsonrpc version")
      ELSE IF ~contains(obj, "id")
      THEN ThrowError(InvalidRequest, "missing id")
      ELSE IF contains(obj, "result") /\ contains(obj, "error")
      THEN ThrowError(InvalidRequest, "response has both result and error")
      ELSE IF ~contains(obj, "result") /\ ~contains(obj, "error")
      THEN ThrowError(InvalidRequest, "response has neither result nor error")
      ELSE IF contains(obj, "result")
      THEN Return(ResponseResult(obj.result, obj.id))
      ELSE IF ~is_object(obj.error)
      THEN ThrowError(InvalidRequest, "error must be an object")
      ELSE LET err == obj.error.v IN
        IF ~contains(err, "code") \/ ~is_int64(err.code)
        THEN ThrowError(InvalidRequest, "error.code missing or invalid")
        ELSE IF ~contains(err, "message") \/ ~is_string(err.message)
        THEN ThrowError(InvalidRequest, "error.message missing or invalid")
        ELSE LET code == static_cast_code(err.code.v)
                 message == err.message.v
             IN IF contains(err, "data")
                THEN Return(ResponseError(
                        ErrorWithData(code, IF kept THEN message ELSE "", err.data),
                        obj.id))
                ELSE Return(ResponseError(Error(code, message), obj.id))

\* Protocol::parse_response
parse_response(json_str, kept) ==
    LET p == json_parse(json_str) IN
    IF p.thrown THEN ThrowError(ParseError, "JSON parse failed: " \o p.payload)
    ELSE IF ~is_object(p.value)
    THEN ThrowError(InvalidRequest, "response must be a JSON object")
    ELSE Response_from_json(p.value, kept)

\* Protocol::parse_batch_response
parse_batch_response(json_str, kept) ==
    LET p == json_parse(json_str) IN
    IF p.thrown THEN ThrowError(ParseError, "JSON parse failed: " \o p.payload)
    ELSE IF ~is_array(p.value)
    THEN ThrowError(InvalidRequest, "batch response must be a JSON array")
    ELSE LET arr == p.value.v
             outs == [i \in 1..Len(arr) |->
                        IF ~is_object(arr[i])
                        THEN ThrowError(InvalidRequest, "element must be an object")
                        ELSE Response_from_json(arr[i], kept)]
             bad == FirstThrown(outs)
         IN IF bad # 0 THEN outs[bad]
            ELSE Return([i \in 1..Len(arr) |-> outs[i].value])

network_error_as_server_error(what) == ThrowError(ServerError, "network error: " \o what)

\* ClientSession::send_request_sync, its catch of boost::system::system_error
network_error(what) == ThrowError(InternalError, "network error: " \o what)

\* ClientSession::call / call_batch after send_request_sync
ClientSession_call(kind, sent, kept) ==
    IF sent.thrown THEN sent
    ELSE IF kind = "call_batch" THEN parse_batch_response(sent.value, kept)
    ELSE parse_response(sent.value, kept)

ClientSession_notify_rethrowing(sent) == IF sent.thrown THEN sent ELSE Return(JNull)

\* ClientSession::notify: catch (...) around send_request_sync, returns void
ClientSession_notify(sent) == Return(JNull)

\* what the operation of this kind makes of the outcome of send_request_sync
client_outcome(kind, sent, kept) ==
    IF kind = "notify" THEN ClientSession_notify(sent)
    ELSE ClientSession_call(kind, sent, kept)

\* messages logged: one by send_request_sync for a network error, one by
\* call / call_batch for a response that does not parse
client_logs(kind, sent, kept) ==
    IF ~cl_logger_ THEN 0
    ELSE IF sent.thrown THEN 1
    ELSE IF kind # "notify" /\ client_outcome(kind, sent, kept).thrown THEN 1
    ELSE 0

C_add == Request("add", JArr(<<JInt(1), JInt(2)>>), JInt(1))

C_delay == Request("delay", JArr(<<JInt(2)>>), JInt(2))

C_notify == Notification("delay", JArr(<<JInt(1)>>))

\* the bodies the three operations send
ClientBodies ==
    [call |-> {serialize_request(C_add), serialize_request(C_delay)},
     call_batch |-> {serialize_batch_request(<<C_add, C_delay>>),
                     serialize_batch_request(<<C_add>>)},
     notify |-> {serialize_request(C_notify)}]

\* the bodies a peer may answer with
ReplyBodies ==
    { serialize_response(ResponseResult(JInt(3), JInt(1))),
      serialize_response(ResponseError(Error(MethodNotFound, "no such method"), JInt(1))),
      serialize_response(ResponseError(
          ErrorWithData(ServerError, "boom", JStr("detail")), JInt(2))),
      serialize_batch_response(<<ResponseResult(JInt(3), JInt(1)),
                                 ResponseResult(JInt(2), JInt(2))>>),
      serialize(JObj([jsonrpc |-> JStr("2.0"), result |-> JInt(3)])),
      serialize(JInt(1)),
      RawText(""),
      RawText("<html>") }

NoReply == RawText("none")

InitClient ==
    /\ methods_ = Registry
    /\ batch_thread_count_ = 2
    /\ InvokeIdle
    /\ ProtocolIdle
    /\ AsyncIdle
    /\ BatchIdle
    /\ SessionIdle
    /\ ServerIdle
    /\ cl_kind = "none"
    /\ cl_pc = "idle"
    /\ cl_request = RawText("")
    /\ cl_outcome = NoOutcome
    /\ cl_ec = "ok"
    /\ cl_logger_ \in BOOLEAN
    /\ cl_logged = 0
    /\ timer_expired = FALSE
    /\ srv_proc = "none"
    /\ srv_reply = NoReply

\* send_request_sync fails in a phase: the catch logs and throws the Error,
\* and the operation makes of it what it does
send_failed(ec) ==
    /\ cl_pc' = "done"
    /\ cl_ec' = ec
    /\ cl_outcome' = client_outcome(cl_kind, network_error(ec), TRUE)
    /\ cl_logged' = client_logs(cl_kind, network_error(ec), TRUE)

\* Client::call / call_batch / notify up to the entry of send_request_sync
client_begin(kind, body) ==
    /\ cl_pc \in {"idle", "done"}
    /\ cl_kind' = kind
    /\ cl_request' = body
    /\ cl_pc' = "resolve"
    /\ cl_outcome' = NoOutcome
    /\ cl_ec' = "ok"
    /\ cl_logged' = 0
    /\ timer_expired' = FALSE
    /\ srv_proc' = "none"
    /\ srv_reply' = NoReply
    /\ UNCHANGED <<registry_vars, invoke_vars, async_vars, protocol_vars, batch_vars, started, finished,
                   session_vars, server_vars, cl_logger_>>

\* send_request_sync: resolver_.resolve, then expires_after
resolve(ec) ==
    /\ cl_pc = "resolve"
    /\ IF ec = "ok"
       THEN /\ cl_pc' = "connect"
            /\ timer_expired' = FALSE
            /\ UNCHANGED <<cl_outcome, cl_ec, cl_logged>>
       ELSE send_failed(ec) /\ UNCHANGED timer_expired
    /\ UNCHANGED <<registry_vars, invoke_vars, async_vars, protocol_vars, batch_vars, started, finished,
                   session_vars, server_vars, cl_kind, cl_request, cl_logger_,
                   srv_proc, srv_reply>>

\* send_request_sync: stream_.connect, the request built, then expires_after
connect(ec) ==
    /\ cl_pc = "connect"
    /\ IF ec = "ok"
       THEN /\ cl_pc' = "write"
            /\ timer_expired' = FALSE
            /\ UNCHANGED <<cl_outcome, cl_ec, cl_logged>>
       ELSE send_failed(ec) /\ UNCHANGED timer_expired
    /\ UNCHANGED <<registry_vars, invoke_vars, async_vars, protocol_vars, batch_vars, started, finished,
                   session_vars, server_vars, cl_kind, cl_request, cl_logger_,
                   srv_proc, srv_reply>>

\* send_request_sync: http::write, then expires_after; the peer has the request
write(ec) ==
    /\ cl_pc = "write"
    /\ IF ec = "ok"
       THEN /\ cl_pc' = "read"
            /\ timer_expired' = FALSE
            /\ srv_proc' = "received"
            /\ UNCHANGED <<cl_outcome, cl_ec, cl_logged>>
       ELSE send_failed(ec) /\ UNCHANGED <<timer_expired, srv_proc>>
    /\ UNCHANGED <<registry_vars, invoke_vars, async_vars, protocol_vars, batch_vars, started, finished,
                   session_vars, server_vars, cl_kind, cl_request, cl_logger_,
                   srv_reply>>

\* the timer armed by expires_after runs out while the phase it was armed
\* for has not completed (during the read: while the peer has not answered).
\* The synchronous connect, write and read of the stream do not wait on it.
timer_expire ==
    /\ cl_pc \in {"connect", "write", "read"}
    /\ cl_pc = "read" => srv_reply = NoReply
    /\ ~timer_expired
    /\ timer_expired' = TRUE
    /\ UNCHANGED <<registry_vars, invoke_vars, async_vars, protocol_vars, batch_vars, started, finished,
                   session_vars, server_vars, cl_kind, cl_pc, cl_request,
                   cl_outcome, cl_ec, cl_logger_, cl_logged, srv_proc, srv_reply>>

\* the peer starts the called procedure
peer_invoke ==
    /\ srv_proc = "received"
    /\ srv_proc' = "running"
    /\ UNCHANGED <<registry_vars, invoke_vars, async_vars, protocol_vars, batch_vars, started, finished,
                   session_vars, server_vars, cl_kind, cl_pc, cl_request,
                   cl_outcome, cl_ec, cl_logger_, cl_logged, timer_expired,
                   srv_reply>>

\* the procedure has finished and the peer writes its response
peer_reply(body) ==
    /\ srv_proc = "running"
    /\ srv_proc' = "finished"
    /\ srv_reply' = body
    /\ UNCHANGED <<registry_vars, invoke_vars, async_vars, protocol_vars, batch_vars, started, finished,
                   session_vars, server_vars, cl_kind, cl_pc, cl_request,
                   cl_outcome, cl_ec, cl_logger_, cl_logged, timer_expired>>

\* send_request_sync: http::read returns, with the response once the peer has
\* written it or with an error; then the shutdown, the return of the body and
\* the rest of call, call_batch or notify
read(ec, kept) ==
    /\ cl_pc = "read"
    /\ IF ec = "ok"
       THEN /\ srv_reply # NoReply
            /\ cl_pc' = "done"
            /\ cl_outcome' = client_outcome(cl_kind, Return(srv_reply), kept)
            /\ cl_logged' = client_logs(cl_kind, Return(srv_reply), kept)
            /\ UNCHANGED cl_ec
       ELSE send_failed(ec)
    /\ UNCHANGED <<registry_vars, invoke_vars, async_vars, protocol_vars, batch_vars, started, finished,
                   session_vars, server_vars, cl_kind, cl_request, cl_logger_,
                   timer_expired, srv_proc, srv_reply>>

NextClient ==
    \/ \E kind \in {"call", "call_batch", "notify"} :
          \E body \in ClientBodies[kind] : client_begin(kind, body)
    \/ \E ec \in {"ok", "host_not_found"} : resolve(ec)
    \/ \E ec \in {"ok", "connection_refused"} : connect(ec)
    \/ \E ec \in {"ok", "broken_pipe"} : write(ec)
    \/ timer_expire
    \/ peer_invoke
    \/ \E body \in ReplyBodies : peer_reply(body)
    \/ \E ec \in {"ok", "end_of_stream", "connection_reset"}, kept \in BOOLEAN : read(ec, kept)

SpecClient == InitClient /\ [][NextClient]_vars

(***************************************************************************)
(* SpecProtocol: the functions of Protocol applied to bounded inputs        *)
(***************************************************************************)
\* A member that the object does not have
Absent == [t |-> "absent"]

VersionMembers == {Absent, JStr("2.0"), JStr("1.0"), JInt(2)}

MethodMembers == {Absent, JStr("add"), JInt(1)}

ParamsMembers ==
    {Absent, JNull, JArr(<<JInt(1)>>), JObj([a |-> JInt(1)]), JStr("x"), JBool(TRUE)}

IdMembers ==
    {Absent, JNull, JStr("a"), JInt(1), JDouble("1.5"), JBool(TRUE), JArr(<<>>),
     JObj([a |-> JInt(1)])}

\* The JSON object holding the members of f that are not Absent
ObjectOf(f) == JObj([k \in {k \in DOMAIN f : f[k] # Absent} |-> f[k]])

WireObjects ==
    {ObjectOf([jsonrpc |-> v, method |-> m, params |-> p, id |-> i]) :
        v \in VersionMembers, m \in MethodMembers, p \in ParamsMembers, i \in IdMembers}

\* the texts handed to parse_request: an object, or a batch of one object
WireRequests == WireObjects \cup {JArr(<<o>>) : o \in WireObjects}

ValidIds == {JNull, JStr("a"), JInt(1)}

ValidParams == {JNull, JArr(<<JInt(1), JInt(2)>>), JObj([a |-> JInt(1)])}

ValidRequests ==
    {Request(m, p, i) : m \in {"add", "log"}, p \in ValidParams, i \in ValidIds}
    \cup {Notification(m, p) : m \in {"add", "log"}, p \in ValidParams}

ValidErrors ==
    {Error(MethodNotFound, "method not found"),
     Error(InternalError, ""),
     ErrorWithData(ServerError, "boom", JStr("detail")),
     ErrorWithData(InvalidParams, "", JInt(7))}

ValidResponses ==
    {ResponseResult(r, i) : r \in {JNull, JInt(3), JStr("x")}, i \in ValidIds}
    \cup {ResponseError(e, i) : e \in ValidErrors, i \in ValidIds}

InitProtocol ==
    /\ methods_ = NoMethods
    /\ batch_thread_count_ = 2
    /\ InvokeIdle
    /\ ProtocolIdle
    /\ AsyncIdle
    /\ BatchIdle
    /\ SessionIdle
    /\ ServerIdle
    /\ ClientIdle

\* Protocol::parse_request on the text of jv
parse_request_call(jv) ==
    /\ pr_op' = "parse_request"
    /\ pr_in' = jv
    /\ pr_out' = parse_request(serialize(jv))
    /\ UNCHANGED <<registry_vars, invoke_vars, async_vars, batch_vars, started, finished,
                   session_vars, server_vars, client_vars>>

\* Protocol::parse_request(Protocol::serialize_request(r))
request_round_trip(r) ==
    /\ pr_op' = "request_round_trip"
    /\ pr_in' = r
    /\ pr_out' = parse_request(serialize_request(r))
    /\ UNCHANGED <<registry_vars, invoke_vars, async_vars, batch_vars, started, finished,
                   session_vars, server_vars, client_vars>>

\* Protocol::parse_response(Protocol::serialize_response(p))
response_round_trip(p, kept) ==
    /\ pr_op' = "response_round_trip"
    /\ pr_in' = p
    /\ pr_out' = parse_response(serialize_response(p), kept)
    /\ UNCHANGED <<registry_vars, invoke_vars, async_vars, batch_vars, started, finished,
                   session_vars, server_vars, client_vars>>

\* The int64 values of the wire, one bit wider than int
WireInts == -(2 ^ IntBits)..(2 ^ IntBits)

\* MethodWrapperImpl::invoke of int add(int, int) on the params [a, 0]
wrapper_invoke_call(a) ==
    /\ pr_op' = "wrapper_invoke"
    /\ pr_in' = JArr(<<JInt(a), JInt(0)>>)
    /\ pr_out' = wrapper_invoke(P_add, pr_in')
    /\ UNCHANGED <<registry_vars, invoke_vars, async_vars, batch_vars, started, finished,
                   session_vars, server_vars, client_vars>>

NextProtocol ==
    \/ \E a \in WireInts : wrapper_invoke_call(a)
    \/ \E jv \in WireRequests : parse_request_call(jv)
    \/ \E r \in ValidRequests : request_round_trip(r)
    \/ \E p \in ValidResponses, kept \in BOOLEAN : response_round_trip(p, kept)

SpecProtocol == InitProtocol /\ [][NextProtocol]_vars

(***************************************************************************)
(* SpecAsync: Client::async_call and the driver primitives run, poll,       *)
(* run_for and run_until_idle on the client's io_context                    *)
(***************************************************************************)
MaxCalls == 1

MaxPosted == 1

Phases == {"resolve", "connect", "write", "read"}

DriverOps == {"run", "poll", "run_for", "run_until_idle"}

\* What the user callback does when it is handed a Response: it returns, or
\* it converts the result and raises Error when there is one to convert
Callbacks == {"returns", "throws_Error_on_result"}

\* the bodies a peer may answer an async_call with
AsyncReplies ==
    { serialize_response(ResponseResult(JInt(3), JInt(1))),
      serialize_response(ResponseError(Error(MethodNotFound, "no such method"), JInt(1))),
      serialize(JObj([jsonrpc |-> JStr("2.0"), result |-> JInt(3)])),
      serialize(JInt(1)),
      RawText("<html>") }

\* std::function<void(const Response&)> callback, called with resp
user_callback(cb, resp) ==
    IF cb = "throws_Error_on_result" /\ ~resp.is_error
    THEN ThrowError(InvalidParams, "expected string")
    ELSE Return(JNull)

\* The error Response of a network failure built with ServerError
async_error_response_server_error(ec) ==
    ResponseError(Error(ServerError, "network error: " \o ec), JNull)

\* ClientSession::async_call, the lambda's branch for ec: the error Response
async_error_response(ec) ==
    ResponseError(Error(InternalError, "network error: " \o ec), JNull)

\* ClientSession::async_call, the lambda given to send_request_async: the
\* Responses handed to the callback in order, the messages logged, and
\* whether an exception leaves the lambda
async_call_completion(cb, ec, body, kept) ==
    IF ec # "ok"
    THEN [got |-> <<async_error_response(ec)>>, logs |-> 0,
          thrown |-> user_callback(cb, async_error_response(ec)).thrown]
    ELSE LET p == parse_response(body, kept) IN
         IF p.thrown
         THEN [got |-> <<ResponseError(p.payload, JNull)>>, logs |-> 1,
               thrown |-> user_callback(cb, ResponseError(p.payload, JNull)).thrown]
         ELSE LET o == user_callback(cb, p.value) IN
              IF ~o.thrown
              THEN [got |-> <<p.value>>, logs |-> 0, thrown |-> FALSE]
              ELSE IF o.kind = "Error"
              THEN [got |-> <<p.value, ResponseError(o.payload, JNull)>>, logs |-> 1,
                    thrown |-> user_callback(cb, ResponseError(o.payload, JNull)).thrown]
              ELSE [got |-> <<p.value>>, logs |-> 0, thrown |-> TRUE]

\* The exchange a new async_call starts: async_resolve is outstanding
NewCall(cb) ==
    [pc |-> "resolve", ready |-> FALSE, ec |-> "ok", body |-> NoReply, cb |-> cb,
     got |-> <<>>, logged |-> 0]

NextPhase(phase) ==
    CASE phase = "resolve" -> "connect"
      [] phase = "connect" -> "write"
      [] phase = "write" -> "read"

\* The completion handler of the phase of exchange c, with the handlers it
\* calls: on an error each of the two layers logs and the error goes to the
\* lambda of async_call; after the read the body goes to it; otherwise the
\* next asynchronous operation is started
handler(c, kept) ==
    IF c.ec # "ok" \/ c.pc = "read"
    THEN LET d == async_call_completion(c.cb, c.ec, c.body, kept)
             n == (IF c.ec # "ok" THEN 2 ELSE 0) + d.logs
         IN [call |-> [c EXCEPT !.pc = "done", !.ready = FALSE, !.got = d.got,
                                !.logged = n],
             thrown |-> d.thrown]
    ELSE [call |-> [c EXCEPT !.pc = NextPhase(c.pc), !.ready = FALSE], thrown |-> FALSE]

\* scheduler::outstanding_work_: operations in progress and handlers queued
outstanding_work(calls, posted) ==
    Cardinality({i \in 1..Len(calls) : calls[i].pc # "done"}) + posted

\* A handler is queued and ready to run
ready_handlers ==
    as_ctx.posted > 0 \/ \E i \in 1..Len(as_calls) : as_calls[i].ready

not_async_vars ==
    <<registry_vars, invoke_vars, protocol_vars, batch_vars, started, finished,
      session_vars, server_vars, client_vars>>

InitAsync ==
    /\ methods_ = NoMethods
    /\ batch_thread_count_ = 2
    /\ InvokeIdle
    /\ ProtocolIdle
    /\ BatchIdle
    /\ SessionIdle
    /\ ServerIdle
    /\ ClientIdle
    /\ AsyncIdle

\* Client::async_call, up to the async_resolve started by do_connect
async_call(cb) ==
    /\ as_drv.pc # "running"
    /\ Len(as_calls) < MaxCalls
    /\ as_calls' = Append(as_calls, NewCall(cb))
    /\ UNCHANGED <<as_ctx, as_drv, not_async_vars>>

\* get_io_context().post(handler)
post(count) ==
    /\ as_drv.pc # "running"
    /\ as_ctx.posted + as_ctx.executed < MaxPosted
    /\ as_ctx' = [as_ctx EXCEPT !.posted = @ + count]
    /\ UNCHANGED <<as_calls, as_drv, not_async_vars>>

\* The outstanding operation of exchange i completes in the operating system
\* (or its deadline expires): its completion handler is queued
io_complete(i, ec, body) ==
    /\ i \in 1..Len(as_calls)
    /\ as_calls[i].pc \in Phases
    /\ ~as_calls[i].ready
    /\ ec = "timeout" => as_calls[i].pc # "resolve"
    /\ body # NoReply <=> (as_calls[i].pc = "read" /\ ec = "ok")
    /\ as_calls' = [as_calls EXCEPT ![i] = [@ EXCEPT !.ready = TRUE, !.ec = ec,
                                                      !.body = body]]
    /\ UNCHANGED <<as_ctx, as_drv, not_async_vars>>

\* Client::run, poll, run_for, run_until_idle: the call enters the io_context
driver_enter(op) ==
    /\ as_drv.pc # "running"
    /\ as_drv' = [op |-> op, pc |-> "running", n |-> 0, total |-> 0,
                  entry_posted |-> as_ctx.posted]
    /\ UNCHANGED <<as_calls, as_ctx, not_async_vars>>

\* The driver runs the queued completion handler of exchange i; the
\* io_context stops itself when no work is left
run_handler(i, kept) ==
    /\ as_drv.pc = "running"
    /\ ~as_ctx.stopped
    /\ i \in 1..Len(as_calls)
    /\ as_calls[i].ready
    /\ LET next == handler(as_calls[i], kept)
           calls == [as_calls EXCEPT ![i] = next.call]
       IN /\ as_calls' = calls
          /\ as_ctx' = [as_ctx EXCEPT
                           !.stopped = outstanding_work(calls, as_ctx.posted) = 0]
          /\ as_drv' = [as_drv EXCEPT !.n = @ + 1,
                                      !.pc = IF next.thrown THEN "thrown" ELSE @]
    /\ UNCHANGED not_async_vars

\* The driver runs a posted handler
run_posted ==
    /\ as_drv.pc = "running"
    /\ ~as_ctx.stopped
    /\ as_ctx.posted > 0
    /\ as_ctx' = [as_ctx EXCEPT
                     !.posted = @ - 1,
                     !.executed = @ + 1,
                     !.stopped = outstanding_work(as_calls, as_ctx.posted - 1) = 0]
    /\ as_drv' = [as_drv EXCEPT !.n = @ + 1]
    /\ UNCHANGED <<as_calls, not_async_vars>>

\* io_context::run, poll or run_for returns; in run_until_idle a poll returns
\* and the loop ends or polls again.  They return at once when the io_context
\* is stopped, stop it and return when no work is outstanding; poll returns
\* when no handler is ready, run_for also when its duration has elapsed.
\* No primitive of Client calls io_context::restart.
driver_return ==
    /\ as_drv.pc = "running"
    /\ \/ as_ctx.stopped
       \/ outstanding_work(as_calls, as_ctx.posted) = 0
       \/ as_drv.op \in {"poll", "run_until_idle"} /\ ~ready_handlers
       \/ as_drv.op = "run_for"
    /\ as_ctx' = [as_ctx EXCEPT
                     !.stopped = @ \/ outstanding_work(as_calls, as_ctx.posted) = 0]
    /\ as_drv' = IF as_drv.op = "run_until_idle" /\ as_drv.n # 0
                 THEN [as_drv EXCEPT !.total = @ + as_drv.n, !.n = 0]
                 ELSE [as_drv EXCEPT !.pc = "returned"]
    /\ UNCHANGED <<as_calls, not_async_vars>>

NextAsync ==
    \/ \E cb \in Callbacks : async_call(cb)
    \/ post(1)
    \/ \E i \in 1..MaxCalls, ec \in {"ok", "failed", "timeout"},
          body \in AsyncReplies \cup {NoReply} : io_complete(i, ec, body)
    \/ \E op \in DriverOps : driver_enter(op)
    \/ \E i \in 1..MaxCalls, kept \in BOOLEAN : run_handler(i, kept)
    \/ run_posted
    \/ driver_return

SpecAsync == InitAsync /\ [][NextAsync]_vars

(***************************************************************************)
(* Properties                                                               *)
(***************************************************************************)
\* Equality of two JSON values
same_json(a, b) == a.t = b.t /\ a = b

\* The declared type accepts the JSON value (the rules of the value codec)
TypeAccepts(type, jv) ==
    CASE type = "int" -> jv.t = "int64"
      [] type = "double" -> jv.t \in {"double", "int64", "uint64"}
      [] type = "bool" -> jv.t = "bool"
      [] type = "string" -> jv.t = "string"

\* params matches the declared parameter types in arity and in types
ParamsMatch(types, params) ==
    IF Len(types) = 0
    THEN is_null(params) \/ (is_array(params) /\ Len(params.v) = 0)
    ELSE /\ is_array(params)
         /\ Len(params.v) = Len(types)
         /\ \A i \in 1..Len(types) : TypeAccepts(types[i], params.v[i])

\* The positions of the requests of the batch that have an id
WithId == {i \in 1..Len(requests) : requests[i].has_id}

\* The position of the k-th request that has an id
KthWithId(k) ==
    CHOOSE i \in WithId : Cardinality({j \in WithId : j < i}) = k - 1

\* The procedure of request i is registered and its params match
Callable(i) ==
    /\ requests[i].method \in DOMAIN methods_
    /\ ParamsMatch(methods_[requests[i].method].args, requests[i].params)

\* The invocation of request i alone fails: unknown method, invalid params
\* or a raising procedure
Fails(i) ==
    LET out == invoke(methods_, requests[i]) IN out.thrown \/ out.value.is_error

\* ---- C1 ----
\* C1: when invoke_batch has returned, the list holds exactly one response
\* per request with an id and none for notifications, and the k-th response
\* carries the id of the k-th request that has an id, whatever the pool size
\* and the interleaving of the tasks were.
C1_BatchOrderPreserved ==
    bpc = "returned" =>
        /\ Len(responses) = Cardinality(WithId)
        /\ \A k \in 1..Len(responses) :
              same_json(responses[k].id, requests[KthWithId(k)].id)

\* C1 witness: a batch with a notification between two requests of
\* different ids has returned although the later request completed first.
C1_Witness ==
    /\ bpc = "returned"
    /\ Len(requests) = 3
    /\ requests[1].has_id /\ ~requests[2].has_id /\ requests[3].has_id
    /\ ~same_json(requests[1].id, requests[3].id)
    /\ Len(indexed_responses) = 2
    /\ indexed_responses[1].index = 3
    /\ indexed_responses[2].index = 1

\* ---- C2 ----
\* C2: when invoke_batch has returned, every member (notification or not)
\* whose method is registered and whose params match has had its procedure
\* entered exactly once and left again, no other member has run a procedure,
\* and nothing of the batch is queued or running on the pool any more.
C2_AllTasksCompleted ==
    bpc = "returned" =>
        /\ \A i \in 1..Len(requests) :
              IF Callable(i)
              THEN started[i] = 1 /\ finished[i] = 1
              ELSE started[i] = 0 /\ finished[i] = 0
        /\ pool_queue = <<>>
        /\ \A w \in 1..batch_thread_count_ : workers[w] = IdleWorker

\* C2 witness: a batch larger than the pool, holding a notification and a
\* request that both ran their procedure, has returned.
C2_Witness ==
    /\ bpc = "returned"
    /\ Len(requests) > batch_thread_count_
    /\ \E i, j \in 1..Len(requests) :
          /\ ~requests[i].has_id /\ Callable(i) /\ finished[i] = 1
          /\ requests[j].has_id /\ Callable(j) /\ finished[j] = 1

\* ---- C8 ----
\* The exception the body of the procedure found raises for the request,
\* if the body is reached
BodyOutcome(it, request) ==
    call_with_tuple(it.wrapper, extract_args(it.wrapper.args, request.params).value)

\* C8: invoke(req) always returns a Response carrying req.id; a procedure
\* raising a protocol Error yields that Error unchanged (code, message,
\* data), and a procedure raising any other failure yields an error response
\* with code InternalError instead of the failure escaping invoke.
C8_InvokeAlwaysResponds ==
    inv_pc = "returned" =>
        /\ ~inv_outcome.thrown
        /\ same_json(inv_outcome.value.id, inv_request.id)
        /\ BodyRuns(inv_it, inv_request) /\ BodyOutcome(inv_it, inv_request).thrown =>
              /\ inv_outcome.value.is_error
              /\ IF BodyOutcome(inv_it, inv_request).kind = "Error"
                 THEN inv_outcome.value.error = BodyOutcome(inv_it, inv_request).payload
                 ELSE inv_outcome.value.error.code = InternalError

\* ---- C9 ----
\* C9: invoke(req) for a method that is not registered returns an error
\* response with code MethodNotFound and id req.id; for a registered method
\* whose params do not match the declared arity or types it returns an error
\* response with code InvalidParams; in both cases no procedure body runs.
C9_LookupAndParamsErrors ==
    inv_pc = "returned" =>
        /\ ~inv_it.found =>
              /\ ~inv_outcome.thrown
              /\ inv_outcome.value.is_error
              /\ inv_outcome.value.error.code = MethodNotFound
              /\ same_json(inv_outcome.value.id, inv_request.id)
              /\ started = <<0>>
        /\ inv_it.found /\ ~ParamsMatch(inv_it.wrapper.args, inv_request.params) =>
              /\ ~inv_outcome.thrown
              /\ inv_outcome.value.is_error
              /\ inv_outcome.value.error.code = InvalidParams
              /\ same_json(inv_outcome.value.id, inv_request.id)
              /\ started = <<0>>

\* C9 witness: invoke has returned InvalidParams for a registered procedure
\* without parameters that was called with arguments.
C9_Witness ==
    /\ inv_pc = "returned"
    /\ inv_it.found
    /\ inv_it.wrapper.args = <<>>
    /\ is_array(inv_request.params)
    /\ Len(inv_request.params.v) > 0
    /\ inv_outcome.value.error.code = InvalidParams

\* ---- C10 ----
\* C10: when a batch that holds a failing notification has returned, the
\* list has no entry for any notification, and the entry of every request
\* with an id is the response that request gets on its own.
C10_NotificationFailureSilent ==
    bpc = "returned" /\ (\E i \in 1..Len(requests) : ~requests[i].has_id /\ Fails(i)) =>
        /\ Len(responses) = Cardinality(WithId)
        /\ \A k \in 1..Len(responses) :
              responses[k] = task_response(methods_, requests[KthWithId(k)])

\* C10 witness: a batch with a failing notification ahead of a request that
\* succeeds has returned the success.
C10_Witness ==
    /\ bpc = "returned"
    /\ Len(requests) >= 2
    /\ ~requests[1].has_id /\ Fails(1)
    /\ requests[2].has_id /\ ~Fails(2)
    /\ Len(responses) >= 1
    /\ ~responses[1].is_error

\* ---- C3 ----
\* The session has answered a POST of JSON whose body parsed
Dispatched == state = "Writing" /\ body_parsed /\ requests # <<>>

\* C3: when the body is a single notification or a batch made only of
\* notifications, the session answers 204 No Content with an empty body.
C3_NotificationsGet204 ==
    Dispatched /\ (\A i \in 1..Len(requests) : ~requests[i].has_id) =>
        /\ res_.status = 204
        /\ res_.body = RawText("")

\* ---- C4 ----
\* C4: every response the session writes honours the keep-alive setting of
\* the request, and after a write without error the session is back in
\* Reading if and only if the request asked for keep-alive, else Closed.
C4_KeepAliveHonoured ==
    [][/\ state' = "Writing" => keep_alive(res_') = keep_alive(req_')
       /\ state = "Writing" /\ state' # "Writing" /\ last_ec' = "ok" =>
             IF keep_alive(req_) THEN state' = "Reading" ELSE state' = "Closed"]_vars

\* ---- C5 ----
\* The session has answered a POST whose Content-Type names JSON
JsonPost ==
    /\ state = "Writing"
    /\ req_.verb = "POST"
    /\ find(req_.content_type, "application/json")

\* C5: if parse_request fails on the body of a JSON POST (syntax error,
\* empty batch, or a structural violation in the object or in any element of
\* a batch), the answer is HTTP 200 with one error-response object of id
\* null whose code is ParseError for a syntax error and InvalidRequest
\* otherwise, and no procedure has been invoked.
C5_ParseFailureInBand ==
    JsonPost /\ parse_request(req_.body).thrown =>
        /\ res_.status = 200
        /\ res_.body.wf
        /\ is_object(res_.body.jv)
        /\ DOMAIN res_.body.jv.v = {"jsonrpc", "error", "id"}
        /\ is_null(res_.body.jv.v.id)
        /\ res_.body.jv.v.error.v.code =
              JInt(IF req_.body.wf THEN InvalidRequest ELSE ParseError)
        /\ requests = <<>>
        /\ \A i \in DOMAIN started : started[i] = 0

\* C5 witness: a batch of a valid call followed by an element of the wrong
\* version has been answered.
C5_Witness ==
    /\ JsonPost
    /\ req_.body = serialize(JArr(<<J_add, J_bad_version>>))
    /\ res_.status = 200
    /\ is_object(res_.body.jv)

\* ---- C6 ----
\* C6: a request that is not a POST is answered 405 with a plain-text body,
\* whatever its Content-Type; a POST whose Content-Type does not contain
\* application/json is answered 415; in both cases the body has not been
\* parsed, no procedure has run, and an installed logger got a message.
C6_MethodAndMediaTypeRejected ==
    /\ state = "Writing" /\ req_.verb # "POST" =>
          /\ res_.status = 405
          /\ res_.content_type = <<"text/plain">>
          /\ ~res_.body.wf
          /\ ~body_parsed
          /\ started = <<>>
          /\ logger_ => logged >= 1
    /\ state = "Writing" /\ req_.verb = "POST"
          /\ ~find(req_.content_type, "application/json") =>
          /\ res_.status = 415
          /\ ~body_parsed
          /\ started = <<>>
          /\ logger_ => logged >= 1

\* C6 witness: a GET that also lacks the JSON Content-Type has been answered
\* 405 and logged.
C6_Witness ==
    /\ state = "Writing"
    /\ req_.verb = "GET"
    /\ req_.content_type = <<"text/plain">>
    /\ req_.body = serialize(J_add)
    /\ res_.status = 405
    /\ logged = 1

\* ---- C7 ----
\* The session has answered a JSON POST whose body is well-formed JSON
JsonPostOf(kind) == JsonPost /\ req_.body.wf /\ req_.body.jv.t = kind

\* C7 as stated: a body whose top-level value is an array is always
\* answered with a JSON array, and one whose top-level value is an object
\* with a single response object.
C7_ArrayInArrayOut ==
    /\ JsonPostOf("array") => res_.body.wf /\ is_array(res_.body.jv)
    /\ JsonPostOf("object") => res_.body.wf /\ is_object(res_.body.jv)

\* C7 amended: a top-level array that parses as a batch holding at least one
\* request with an id is answered with a JSON array of one response per such
\* request (an array of one response when there is exactly one); a top-level
\* object that parses as a request with an id is answered with a single
\* response object.
C7_ValidBatchArrayOut ==
    /\ JsonPostOf("array") /\ ~parse_request(req_.body).thrown /\ WithId # {} =>
          /\ res_.body.wf
          /\ is_array(res_.body.jv)
          /\ Len(res_.body.jv.v) = Cardinality(WithId)
    /\ JsonPostOf("object") /\ ~parse_request(req_.body).thrown /\ WithId # {} =>
          /\ res_.body.wf
          /\ is_object(res_.body.jv)

\* C7 witness: a batch of exactly one request with an id has been answered
\* with an array of one response.
C7_Witness ==
    /\ JsonPostOf("array")
    /\ Len(req_.body.jv.v) = 1
    /\ WithId = {1}
    /\ is_array(res_.body.jv)
    /\ Len(res_.body.jv.v) = 1

\* What the dispatcher returns is the function invoke_batch of its input
BatchReturnsInvokeBatch ==
    bpc = "returned" => responses = invoke_batch(methods_, requests)

(***************************************************************************)
(* Properties of the server's life cycle                                    *)
(***************************************************************************)
PoolChanged ==
    \/ batch_pool_' # batch_pool_
    \/ pool_stopped' # pool_stopped
    \/ batch_thread_count_' # batch_thread_count_
    \/ workers' # workers

Returned(op, r) == result' # result /\ result'.op = op /\ result'.r = r

\* everything of the server but the record of the latest call
lifecycle_vars == <<pc, sbc_threads, running_, acceptor_ready_, acceptor_open,
                    accept_pending, aborted_queued, accept_failed, io_stopped,
                    worker_thread_, loop, batch_pool_, pool_stopped,
                    batch_thread_count_, workers, session, serving, peer, starts,
                    terminated>>

\* C11: set_batch_concurrency called while the server is running throws
\* std::logic_error and leaves the pool, its size and its threads as they
\* were; called while the server is stopped it goes on to replace the pool
\* by one of the requested size (at least one thread) and returns normally.
C11_ResizeRequiresStoppedServer ==
    [][ /\ \A t \in Threads :
             (pc[t] = "idle" /\ pc'[t] = "resize") => ~running_
        /\ Returned("set_batch_concurrency", "logic_error") =>
             running_ /\ ~PoolChanged /\ UNCHANGED lifecycle_vars
        /\ PoolChanged =>
             /\ ~running_
             /\ batch_pool_ \in pool_stopped' /\ batch_pool_' \notin pool_stopped'
             /\ \E t \in Threads :
                  /\ pc[t] = "resize" /\ pc'[t] = "idle"
                  /\ result' = Call(t, "set_batch_concurrency", "ok")
                  /\ batch_thread_count_' =
                       IF sbc_threads[t] = 0 THEN 1 ELSE sbc_threads[t]
             /\ DOMAIN workers' = 1..batch_thread_count_'
      ]_vars

C11_Witness ==
    /\ result = Call("t1", "set_batch_concurrency", "logic_error")
    /\ running_ /\ loop["w"] = "handler"
    /\ batch_pool_ = 1 /\ batch_thread_count_ = 1

\* C13: start() or run() on a server that is already running throws
\* std::logic_error and changes nothing: the running flag stays set, the
\* acceptor stays open, and no thread is created or enters the loop.
C13_SecondStartRejected ==
    [][ /\ \A t \in Threads :
             (pc[t] = "idle" /\ pc'[t] \in {"start_accept", "run_accept"}) => ~running_
        /\ (Returned("start", "logic_error") \/ Returned("run", "logic_error")) =>
             /\ running_ /\ running_'
             /\ acceptor_open => acceptor_open'
             /\ UNCHANGED lifecycle_vars
      ]_vars

C13_Witness ==
    /\ result = Call("t1", "run", "logic_error")
    /\ running_ /\ acceptor_open /\ worker_thread_ = "joinable"
    /\ \A x \in LoopThreads : loop[x] # "out" <=> x = "w"

\* a start() that returned leaves a server that accepts and answers
StartedServes ==
    (result.op = "start" /\ result.r = "ok" /\ \A t \in callers : pc[t] = "idle") =>
        /\ running_ /\ acceptor_ready_ /\ acceptor_open /\ accept_pending
        /\ ~io_stopped /\ ~terminated
        /\ loop["w"] \in {"idle", "handler"}

\* C14: stop() on a server that is not running returns normally and changes
\* nothing, stop() never throws, and after every start()/stop() cycle a
\* further start() succeeds and leaves the acceptor open with an accept
\* outstanding and the loop thread running, so connections are accepted and
\* answered again.
C14_StopIdempotentAndRestartable ==
    /\ []StartedServes
    /\ [](result.op = "stop" => result.r = "ok")
    /\ [][ \A t \in Threads :
             (pc[t] = "idle" /\ ~running_ /\ Returned("stop", "ok") /\ result'.thread = t) =>
                 UNCHANGED lifecycle_vars
          ]_vars

C14_Witness ==
    /\ starts >= 2 /\ running_
    /\ session = [st |-> "processing", cycle |-> 2]
    /\ serving.done /\ serving.thread = "w"

\* C16: a request that is not a batch is invoked on the reactor thread; only
\* the requests of a batch are executed by the worker pool.
C16_SingleInvokedInline ==
    serving.done => (serving.executor = "pool" <=> serving.body = "batch")

\* C12: no pool is stopped or replaced while a session is inside
\* invoke_batch with tasks posted to it.
C12_PoolStableDuringBatch ==
    (serving.thread # "none" /\ ~serving.done) =>
        serving.pool \notin pool_stopped /\ serving.pool = batch_pool_

\* C15: at most one thread is inside io_context::run at any moment.
C15_SingleReactorThread ==
    Cardinality({x \in LoopThreads : loop[x] \in {"idle", "handler"}}) <= 1

(***************************************************************************)
(* Properties of the client's synchronous operations                        *)
(***************************************************************************)
\* C17: notify returns normally whatever happens: a failure to resolve,
\* connect, write or read, and any answer, malformed or an error, included.
C17_NotifyNeverFails ==
    (cl_kind = "notify" /\ cl_pc = "done") => cl_outcome = Return(JNull)

C17_Witness ==
    /\ cl_kind = "notify" /\ cl_pc = "done"
    /\ cl_ec = "connection_refused" /\ cl_outcome = Return(JNull)

\* C18: notify does not wait for the answer: while the called procedure is
\* executing on the peer, notify is not inside the read of the response.
C18_NotifyDoesNotWait ==
    ~(cl_kind = "notify" /\ cl_pc = "read" /\ srv_proc = "running")

\* C19: a call or call_batch in which resolve, connect, write or read failed
\* throws an Error with code InternalError and returns no Response.
C19_TransportFailureRaisesInternalError ==
    (cl_kind \in {"call", "call_batch"} /\ cl_pc = "done" /\ cl_ec # "ok") =>
        /\ cl_outcome.thrown
        /\ cl_outcome.kind = "Error"
        /\ cl_outcome.payload.code = InternalError

C19_Witness ==
    /\ cl_kind = "call_batch" /\ cl_pc = "done" /\ cl_ec = "connection_reset"
    /\ cl_outcome.thrown /\ cl_outcome.payload.code = InternalError
    /\ srv_proc = "running"

\* C20: a call whose timer ran out before the answer arrived ends with an
\* Error of code InternalError, not with the answer.
C20_TimeoutBoundsCall ==
    (cl_kind = "call" /\ cl_pc = "done" /\ timer_expired) =>
        /\ cl_outcome.thrown
        /\ cl_outcome.kind = "Error"
        /\ cl_outcome.payload.code = InternalError

\* notify returns without a transport error only after the peer has answered
NotifyReturnsAfterProcedure ==
    (cl_kind = "notify" /\ cl_pc = "done" /\ cl_ec = "ok") => srv_proc = "finished"

(***************************************************************************)
(* Registration replaces                                                    *)
(***************************************************************************)
\* The wrapper the latest register_method call for the requested name
\* passed, as it stood when the current invocation's lookup ran
LatestLooked ==
    IF history.looked.found
    THEN [found |-> TRUE, wrapper |-> history.looked.wrapper]
    ELSE [found |-> FALSE]

\* C30: the registry holds, for every name ever registered, exactly the
\* procedure of the latest register_method call for that name (one procedure
\* per name), and an invocation looks up, runs and answers from the procedure
\* that was the latest registration when it began, never an earlier one.
C30_SecondRegistrationReplaces ==
    /\ DOMAIN methods_ = DOMAIN history.latest
    /\ \A n \in DOMAIN methods_ : methods_[n] = history.latest[n]
    /\ inv_pc \in {"found", "returned"} => inv_it = LatestLooked
    /\ inv_pc = "returned" =>
          /\ inv_outcome = invoke_found(LatestLooked, inv_request)
          /\ started = <<IF BodyRuns(LatestLooked, inv_request) THEN 1 ELSE 0>>

\* "add" was first registered as another procedure, then as the adder, and
\* an invocation begun afterwards returned the sum
C30_Witness ==
    /\ inv_pc = "returned"
    /\ history.looked.found
    /\ history.looked.second
    /\ inv_request.method = "add"
    /\ methods_["add"] = P_add
    /\ started = <<1>>
    /\ ~inv_outcome.thrown
    /\ ~inv_outcome.value.is_error
    /\ inv_outcome.value.result = JInt(3)

(***************************************************************************)
(* Properties of the wire format                                            *)
(***************************************************************************)
\* C27: serialising a valid Request and parsing the text gives back the list
\* holding exactly that Request, has_id included, and serialising a valid
\* Response and parsing the text gives back that Response.
C27_RoundTrip ==
    /\ pr_op = "request_round_trip" => pr_out = Return(<<pr_in>>)
    /\ pr_op = "response_round_trip" => pr_out = Return(pr_in)

\* The members of an object that the envelope rules do not allow
Malformed(obj) ==
    \/ ~contains(obj, "jsonrpc")
    \/ obj.jsonrpc # JStr("2.0")
    \/ ~contains(obj, "method")
    \/ ~is_string(obj.method)
    \/ contains(obj, "params")
          /\ ~is_null(obj.params) /\ ~is_array(obj.params) /\ ~is_object(obj.params)
    \/ contains(obj, "id")
          /\ ~is_null(obj.id) /\ ~is_string(obj.id) /\ obj.id.t \notin {"int64", "uint64"}

\* The objects of the text parsed last
ParsedObjects == IF is_array(pr_in) THEN {pr_in.v[1]} ELSE {pr_in}

\* C28: parse_request throws Error(InvalidRequest) for every object that
\* lacks jsonrpc or has it other than the string 2.0, lacks method or has a
\* non-string one, has params other than absent, null, array or object, or
\* has an id other than absent, null, a string or an integer.
C28_MalformedRejected ==
    (pr_op = "parse_request" /\ \E o \in ParsedObjects : Malformed(o.v)) =>
        /\ pr_out.thrown
        /\ pr_out.kind = "Error"
        /\ pr_out.payload.code = InvalidRequest

\* The objects of the JSON-RPC exchange that a body carries, in order
ObjectsOf(body) ==
    IF ~body.wf THEN <<>>
    ELSE IF is_array(body.jv) THEN body.jv.v ELSE <<body.jv>>

\* The positions of the request objects of the body that have an id member
WireWithId == {k \in 1..Len(ObjectsOf(req_.body)) : contains(ObjectsOf(req_.body)[k].v, "id")}

\* How many request objects with an id member come before position k
RankWithId(k) == Cardinality({j \in WireWithId : j <= k})

\* C29: a request object without an id member is parsed as a notification
\* (has_id false) and no response object is written for it; a request object
\* whose id member is null is parsed as a request (has_id true, id null) and
\* a response object with id null is written for it.  The response objects
\* are exactly those of the request objects that have an id member, in order.
C29_IdPresenceDecides ==
    Dispatched =>
        /\ Len(requests) = Len(ObjectsOf(req_.body))
        /\ \A k \in 1..Len(requests) : requests[k].has_id <=> k \in WireWithId
        /\ Len(ObjectsOf(res_.body)) = Cardinality(WireWithId)
        /\ \A k \in WireWithId :
              /\ requests[k].id = ObjectsOf(req_.body)[k].v.id
              /\ contains(ObjectsOf(res_.body)[RankWithId(k)].v, "id")
              /\ ObjectsOf(res_.body)[RankWithId(k)].v.id = requests[k].id

\* A batch of a notification and a request with id null was answered with
\* one response object, of id null
C29_Witness ==
    /\ Dispatched
    /\ req_.body = serialize(JArr(<<J_log, J_crash>>))
    /\ ~requests[1].has_id
    /\ requests[2].has_id
    /\ is_null(requests[2].id)
    /\ Len(ObjectsOf(res_.body)) = 1
    /\ is_null(ObjectsOf(res_.body)[1].v.id)

(***************************************************************************)
(* Properties of one connection                                             *)
(***************************************************************************)
\* C25: on one connection a request is read and dispatched only while the
\* session is reading, which it is at the start and after the complete write
\* of the previous response; while a response is being written no request is
\* read, nothing is dispatched and the response is not replaced, and reading
\* resumes only through the completion of that write.
C25_OneRequestInFlight ==
    [][/\ (req_' # req_ /\ req_' # req_default) => state = "Reading"
       /\ (requests' # requests /\ requests' # <<>>) => state = "Reading"
       /\ (started' # started /\ started' # <<>>) => state = "Reading"
       /\ state = "Writing" =>
             /\ res_' = res_
             /\ state' # "Writing"
             /\ state' = "Reading" =>
                   last_ec' = "ok" /\ served' = TRUE /\ requests' = <<>>
      ]_vars

\* A second request of the connection was dispatched after the response to
\* the first had been written
C25_Witness ==
    /\ Dispatched
    /\ served
    /\ req_.body = serialize(J_add)
    /\ res_.body = serialize_response(ResponseResult(JInt(3), JInt(1)))

\* C26: when the read ends with the expiry of its deadline or with the end
\* of the stream, the session is Closed: no response is written, nothing is
\* parsed or dispatched, and no handler of the session remains, so no
\* further read starts.
C26_ReadFailureCloses ==
    /\ [][(state = "Reading" /\ last_ec' \in {"end_of_stream", "timeout"}) =>
             /\ state' = "Closed"
             /\ res_' = res_
             /\ served' = served
             /\ body_parsed' = body_parsed
             /\ requests' = requests
             /\ responses' = responses
             /\ started' = started]_vars
    /\ [](state = "Closed" => ~ENABLED Next)

\* The deadline expired while the session was waiting for the second request
C26_Witness ==
    /\ state = "Closed"
    /\ last_ec = "timeout"
    /\ served
    /\ ~shutdown_send

(***************************************************************************)
(* Properties of the client's asynchronous operation and its drivers        *)
(***************************************************************************)
\* C21: when the exchange of an async_call has run to its end, whether it
\* succeeded or failed in resolve, connect, write, read or parsing, the user
\* callback has been invoked exactly once.
C21_CallbackExactlyOnce ==
    \A i \in 1..Len(as_calls) :
        as_calls[i].pc = "done" => Len(as_calls[i].got) = 1

\* The JSON value has the members of a response object
ResponseShaped(jv) ==
    /\ is_object(jv)
    /\ contains(jv.v, "jsonrpc")
    /\ jv.v.jsonrpc = JStr("2.0")
    /\ contains(jv.v, "id")
    /\ contains(jv.v, "result") # contains(jv.v, "error")

\* C22: when an async_call fails, the callback is handed, once, an error
\* Response of id null whose code is InternalError for a failure of resolve,
\* connect, write or read (a deadline included), ParseError for a body that
\* is not JSON and InvalidRequest for JSON that is not a response object;
\* no exception leaves the driver call.
C22_FailureDeliveredAsErrorResponse ==
    /\ as_drv.pc # "thrown"
    /\ \A i \in 1..Len(as_calls) :
          LET c == as_calls[i] IN
          (c.pc = "done" /\ (c.ec # "ok" \/ ~c.body.wf \/ ~ResponseShaped(c.body.jv))) =>
              /\ Len(c.got) = 1
              /\ c.got[1].is_error
              /\ c.got[1].id = JNull
              /\ c.got[1].error.code =
                    IF c.ec # "ok" THEN InternalError
                    ELSE IF ~c.body.wf THEN ParseError
                    ELSE InvalidRequest

\* run returned after the read of an async_call had run into its deadline:
\* the callback got the InternalError response
C22_Witness ==
    /\ as_drv.pc = "returned"
    /\ as_drv.op = "run"
    /\ Len(as_calls) = 1
    /\ as_calls[1].pc = "done"
    /\ as_calls[1].ec = "timeout"
    /\ as_calls[1].got = <<async_error_response("timeout")>>

\* C23: a driver primitive works the same on every call: run returns only
\* when every async_call issued so far has had its callback delivered, and
\* poll and run_until_idle return only when no handler is left ready, also
\* when an earlier driver call has returned because no work was left.
C23_DriverReusable ==
    [][(as_drv.pc = "running" /\ as_drv'.pc = "returned") =>
          /\ as_drv.op = "run" =>
                \A i \in 1..Len(as_calls) :
                    as_calls[i].pc = "done" /\ Len(as_calls[i].got) >= 1
          /\ as_drv.op \in {"poll", "run_until_idle"} => ~ready_handlers]_vars

\* C24: run_until_idle returns after a poll that processed nothing, with
\* the sum of what its polls processed; when no exchange is outstanding that
\* sum is at least the number of handlers that were posted when it was
\* called.
C24_RunUntilIdleDrains ==
    [][(as_drv.op = "run_until_idle" /\ as_drv.pc = "running"
            /\ as_drv'.pc = "returned") =>
          /\ as_drv.n = 0
          /\ as_drv'.total = as_drv.total
          /\ outstanding_work(as_calls, 0) = 0 =>
                as_drv'.total >= as_drv.entry_posted]_vars

(***************************************************************************)
(* Properties of the id of an in-band error                                 *)
(***************************************************************************)
\* The body is a JSON object whose id member is a string, a number or null
HasRecoverableId(body) ==
    /\ body.wf
    /\ is_object(body.jv)
    /\ contains(body.jv.v, "id")
    /\ is_string(body.jv.v.id) \/ is_number(body.jv.v.id) \/ is_null(body.jv.v.id)

\* C31: when the body of a JSON POST is well-formed JSON that parse_request
\* rejects, the error response carries the id of the envelope if the body
\* is an object with a valid id member, and null otherwise.
C31_RecoveredIdEchoed ==
    JsonPost /\ req_.body.wf /\ parse_request(req_.body).thrown =>
        /\ res_.body.wf
        /\ is_object(res_.body.jv)
        /\ contains(res_.body.jv.v, "id")
        /\ res_.body.jv.v.id =
              IF HasRecoverableId(req_.body) THEN req_.body.jv.v.id ELSE JNull

(***************************************************************************)
(* Properties of a resize of the worker pool                                *)
(***************************************************************************)
\* C32: when set_batch_concurrency replaces the pool, every task submitted
\* to the old pool has run to completion: none is left in its queue, and an
\* invoke_batch in flight on it has had its completion signalled.
C32_ResizeDrainsPriorPool ==
    [][(batch_pool_' # batch_pool_ /\ serving.pool = batch_pool_) =>
          /\ pool_queue = <<>>
          /\ bpc = "waiting" => promise
      ]_vars

(***************************************************************************)
(* Properties of a start that fails                                         *)
(***************************************************************************)
\* Thread t leaves the call of op it was inside
Exits(t, op) ==
    /\ pc[t] \in (IF op = "run" THEN {"run_accept", "in_run"}
                  ELSE {"start_accept", "start_thread"})
    /\ pc'[t] = "idle"

C40_FailedStartLeavesStopped ==
    [][\A t \in Threads :
          (Exits(t, "start") /\ result'.r = "system_error" /\ result' # result) =>
              ~is_running'
      ]_vars

(***************************************************************************)
(* Properties of the sessions of a stopped server                           *)
(***************************************************************************)
\* C34: when a stop() that found the server running returns, no session
\* accepted before it is left, and no session accepted in an earlier
\* start()/stop() cycle processes a request after the server was started
\* again.
C34_StopClosesSessions ==
    /\ [][(\E t \in Threads : pc[t] = "stop_join" /\ pc'[t] = "idle") =>
             session'.st = "none"]_vars
    /\ [](session.st = "processing" => session.cycle = starts)

(***************************************************************************)
(* Termination of invoke_batch                                              *)
(***************************************************************************)
\* C35: with threads that keep running, invoke_batch returns for every
\* batch and every pool size; the promise is set once, by the task that
\* decrements the counter to zero when every task has been taken from the
\* queue, and only a set promise releases the caller; the empty batch
\* returns in its first step with nothing posted and no pool thread used.
C35_InvokeBatchTerminates ==
    /\ <>(bpc = "returned")
    /\ [][/\ promise => promise'
          /\ (promise' /\ ~promise) =>
                /\ remaining = 1 /\ remaining' = 0
                /\ bpc = "waiting" /\ pool_queue = <<>>
                /\ Cardinality({w \in DOMAIN workers : workers[w] # IdleWorker}) = 1
          /\ (remaining' # remaining /\ remaining' = 0) => promise'
          /\ (bpc = "waiting" /\ bpc' = "returned") => promise
          /\ (bpc = "idle" /\ Len(requests) = 0) =>
                /\ bpc' = "returned"
                /\ pool_queue' = <<>> /\ workers' = workers /\ remaining' = 0
         ]_vars

\* A batch larger than the pool has returned from a pool of one thread
C35_Witness ==
    /\ bpc = "returned"
    /\ batch_thread_count_ = 1
    /\ Len(requests) = MaxBatch
    /\ promise /\ remaining = 0

(***************************************************************************)
(* Properties of the size of the worker pool                                *)
(***************************************************************************)
\* The pool threads that are inside the procedure of a batch member
Executing == {w \in DOMAIN workers : workers[w].phase = "invoke"}

\* C36: batch_thread_count_ is at least 1 whatever size was requested, never
\* more members of a batch are executing than batch_thread_count_, and a
\* batch whose pool has not been stopped runs on batch_thread_count_ threads.
C36_PoolSizeBoundsConcurrency ==
    /\ batch_thread_count_ >= 1
    /\ Cardinality(Executing) <= batch_thread_count_
    /\ (bpc \in {"posting", "waiting"} /\ pool_runs(serving.pool)) =>
          DOMAIN workers = 1..batch_thread_count_

FitsInt(v) == -(2 ^ (IntBits - 1)) <= v /\ v < 2 ^ (IntBits - 1)

\* C38: a procedure declared with int parameters that is invoked with a
\* JSON integer an int cannot hold fails with InvalidParams, and with an
\* integer that fits it receives exactly that integer (add(a, 0) is a).
C38_NarrowingRejected ==
    pr_op = "wrapper_invoke" =>
        LET a == pr_in.v[1].v IN
        IF FitsInt(a)
        THEN pr_out = Return(JInt(a))
        ELSE /\ pr_out.thrown
             /\ pr_out.kind = "Error"
             /\ pr_out.payload.code = InvalidParams

(***************************************************************************)
(* Properties of the sessions sharing the reactor                           *)
(***************************************************************************)
\* C39: two requests of one server are never being processed at the same
\* time, so the pool never holds the tasks of two requests, and while the
\* request of one session is being processed the other session takes no
\* step: it is not accepted, does not read, dispatch or write.
C39_OneRequestProcessing ==
    /\ [](~(session.st = "processing" /\ peer.st = "processing"))
    /\ [][/\ session.st = "processing" => peer' = peer
          /\ peer.st = "processing" => (session' = session /\ serving' = serving)
         ]_vars

====
